---- MODULE Spec2Model ----
(***************************************************************************)
(* A model of the API gateway's per-service circuit breaker                *)
(* (internal/middleware/circuit_breaker.go) and of its load balancer       *)
(* (internal/services/load_balancer.go).                                   *)
(*                                                                         *)
(* Time is an integer clock `now` that starts at 1; the zero time.Time is  *)
(* the integer 0, so time.Time.IsZero is `= 0` and Before is `<`.          *)
(* Durations are counted in units of 30 seconds.  The locals of a method   *)
(* (before, obsState, obsGeneration, success) are cleared when it returns. *)
(***************************************************************************)
EXTENDS Integers, Sequences, FiniteSets, TLC

VARIABLES
  cfg,            \* CircuitBreaker: maxRequests, interval, timeout, readyToTrip
  cb,             \* CircuitBreaker: state, generation, counts, expiry
  now,            \* time.Now()
  mutex,          \* CircuitBreaker.mutex: the caller that holds it, 0 when free
  pc,             \* where each caller of Execute is
  before,         \* Execute: the generation beforeRequest returned to each caller
  obsState,       \* the state currentState returned to the holder of the mutex
  obsGeneration,  \* the generation currentState returned to the holder
  success,        \* afterRequest's argument: isSuccessful(err), FALSE on a panic
  admits,         \* observer: calls admitted in the breaker's current generation
  last,           \* observer: the last step, the error and the state it saw
  probe,          \* observer: what the Counts() just called returned, and the
                  \* holder of the mutex when the last step called onStateChange
  strategy,       \* LoadBalancer.strategy
  weights,        \* WeightedRoundRobinStrategy.weights
  endpoints,      \* LoadBalancer.endpoints
  current,        \* RoundRobinStrategy.current, WeightedRoundRobinStrategy.current
  connections,    \* LeastConnectionsStrategy.connections
  stats,          \* LoadBalancer.stats
  selected,       \* observer: what the SelectEndpoint just called returned
  picks,          \* observer: what round-robin and weighted round-robin
                  \* returned since the list changed
  objects,        \* the orchestrator's Service objects: name -> annotations
  services,       \* ServiceDiscovery.services
  eventCh,        \* ServiceDiscovery.eventCh
  routes,         \* DiscoveryManager.routes
  dynamicRoutes,  \* DynamicRouteManager.dynamicRoutes
  consumer,       \* the goroutine of DiscoveryManager.processEvents
  notified,       \* observer: notifications the informer has delivered
  latest,         \* observer: per route key, the service of the last added or
                  \* modified event processed
  processed,      \* observer: the event processEvents handled last
  dropped,        \* observer: the event the event source dropped last
  sdEndpoints,    \* ServiceDiscovery.endpoints
  eventProcessors,\* DiscoveryManager.eventProcessors
  totalRoutes,    \* DynamicRouteManager.stats.TotalRoutes
  handlers,       \* handleDynamicRoute: where each request is between
                  \* findMatchingRoute and the call of proxyRequestEnhanced
  locks,          \* the mutexes of the dynamic route manager, the managers of
                  \* load balancers and breakers, and the discovery manager
  goroutines,     \* the lock operations each goroutine has still to do in the
                  \* call it is in
  authorization,  \* the Authorization header the client sends with each request
  atProxy,        \* handleDynamicRoute: how many requests are about to call
                  \* proxyRequestEnhanced
  inProxy,        \* proxyRequestEnhanced: the requests inside proxy.ServeHTTP,
                  \* a bag of the generations their beforeRequest returned
  totalRequests,  \* RouteStats.TotalRequests
  response,       \* observer: the response completed last
  eventTypes,     \* observer: the types of the last two events the dynamic
                  \* route manager processed
  rl,             \* RateLimiter: limit, burst, cleanupInterval
  clients,        \* RateLimiter.clients
  rlNow,          \* time.Now() of the rate limiter
  nextCleanup,    \* when the time.Sleep of RateLimiter.cleanup ends
  hits,           \* observer: what the middleware did with each request
  k8s,            \* cfg.Kubernetes: enabled, serviceDiscovery
  setup,          \* where router.Setup is
  dmStopCh,       \* DiscoveryManager.stopCh and ServiceDiscovery.stopCh
  hmStopCh,       \* HealthManager.stopCh
  task,           \* where each background goroutine is
  queued,         \* the events waiting in ServiceDiscovery.eventCh
  statuses,       \* HealthManager.statuses
  lastProbe,      \* observer: the result of the last completed probe of a target
  served          \* observer: the answer to the last request for a static route
                  \* since a probe completed

cbVars == <<cfg, cb, now, mutex, pc, before, obsState, obsGeneration, success,
            admits, last, probe>>

lbVars == <<strategy, weights, endpoints, current, connections, stats, selected,
            picks>>

sdVars == <<objects, services, eventCh, routes, dynamicRoutes, consumer,
            notified, latest, processed, dropped, sdEndpoints,
            eventProcessors, totalRoutes>>

gwVars == <<authorization, atProxy, inProxy, totalRequests, response,
            eventTypes>>

rlVars == <<rl, clients, rlNow, nextCleanup, hits>>

lcVars == <<k8s, setup, dmStopCh, hmStopCh, task, queued, statuses, lastProbe,
            served>>

ccVars == <<handlers, locks, goroutines>>

vars == <<cbVars, lbVars, sdVars, gwVars, rlVars, lcVars, ccVars>>

\* what the breaker's methods leave alone
outsideCB == <<lbVars, sdVars, gwVars, rlVars, lcVars, ccVars>>
\* what the load balancer's methods leave alone
outsideLB == <<cbVars, sdVars, gwVars, rlVars, lcVars, ccVars>>
\* what service discovery and the event consumer leave alone
outsideSD == <<cbVars, lbVars, gwVars, rlVars, lcVars, ccVars>>
\* what the request handler leaves alone
outsideGW == <<cfg, now, mutex, pc, before, obsState, obsGeneration, success,
               admits, last, probe, strategy, weights, connections, selected, picks,
               sdVars, rlVars, lcVars, ccVars>>
\* what the rate limiter leaves alone
outsideRL == <<cbVars, lbVars, sdVars, gwVars, lcVars, ccVars>>
\* what Setup, the static routes and the background goroutines leave alone
outsideLC == <<cbVars, lbVars, sdVars, gwVars, rlVars, ccVars>>

(***************************************************************************)
(* Bounds of the model.                                                    *)
(***************************************************************************)
\* number of goroutines that call Execute concurrently
NumProcs == 2
\* the clock stops after MaxTime ticks
MaxTime == 4
\* no call is started in a closed generation that counts MaxExtra requests more
\* than the breaker's trip rule reads
MaxExtra == 1
\* SelectEndpoint is called at most MaxSelections times
MaxSelections == 4
\* at most MaxConnections connections are open at a time
MaxConnections == 1
\* the informer delivers at most MaxNotifications notifications
MaxNotifications == 4
\* at most MaxArrivals requests arrive for a dynamic route
MaxArrivals == 7
\* the rate limiter's clock stops after MaxTicks ticks
MaxTicks == 12
\* the rate limiter receives at most MaxHits requests
MaxHits == 4
\* at most MaxQueued events wait in the event channel during shutdown
MaxQueued == 2
\* beside the event consumer, at most MaxRouted requests match a route
MaxRouted == 2

\* the events stop when DynamicRouteManager.stats.TotalRoutes has counted this
\* many routes
MaxCounted == 2

Procs == 1..NumProcs

\* the goroutine that calls State() and Counts()
Reader == NumProcs + 1

(***************************************************************************)
(* Program constants.                                                      *)
(***************************************************************************)
\* cbConfig.MaxRequests of the dynamic route manager
DrmMaxRequests == 5
\* cbConfig.Interval, 60 s
DrmInterval == 2
\* cbConfig.Timeout, 30 s
DrmTimeout == 1
\* "ConsecutiveFailures > 5"
TripConsecutive == 5
\* "Requests > 10"
TripMinRequests == 10

StateClosed == "CLOSED"
StateHalfOpen == "HALF_OPEN"
StateOpen == "OPEN"

ErrTooManyRequests == "circuit breaker: too many requests"
ErrOpenState == "circuit breaker: open state"
NoError == "nil"

\* Counts{}
ZeroCounts ==
  [requests |-> 0, totalSuccesses |-> 0, totalFailures |-> 0,
   consecutiveSuccesses |-> 0, consecutiveFailures |-> 0]

(***************************************************************************)
(* readyToTrip functions.  A trip rule is                                  *)
(*   consecutiveFailures > consec                                          *)
(*   \/ (rate /\ requests > minReq /\ ErrorRate() > num/den).              *)
(***************************************************************************)
\* the rule the dynamic route manager installs
DrmReadyToTrip ==
  [consec |-> TripConsecutive, rate |-> TRUE, minReq |-> TripMinRequests,
   num |-> 1, den |-> 2]

\* a caller-supplied rule that trips on the first failure
TripOnFirstFailure ==
  [consec |-> 0, rate |-> FALSE, minReq |-> 0, num |-> 1, den |-> 1]

\* a caller-supplied rule that trips on the second consecutive failure
TripOnSecondFailure ==
  [consec |-> 1, rate |-> FALSE, minReq |-> 0, num |-> 1, den |-> 1]

\* The configurations a breaker is built with: the dynamic route manager's, and
\* caller-supplied ones with maxRequests >= 1 (NewCircuitBreakerManager turns a
\* MaxRequests of 0 into 1).
Configs ==
  { [maxRequests |-> DrmMaxRequests, interval |-> DrmInterval,
     timeout |-> DrmTimeout, readyToTrip |-> DrmReadyToTrip] }
  \cup
  { [maxRequests |-> 1, interval |-> 0, timeout |-> 1,
     readyToTrip |-> TripOnFirstFailure],
    [maxRequests |-> 2, interval |-> 1, timeout |-> 1,
     readyToTrip |-> TripOnSecondFailure] }

\* Counts.ErrorRate() > num/den, in exact arithmetic
ErrorRateAbove(counts, num, den) ==
  /\ counts.requests # 0
  /\ counts.totalFailures * den > num * counts.requests

ReadyToTrip(counts) ==
  LET r == cfg.readyToTrip IN
  \/ counts.consecutiveFailures > r.consec
  \/ (r.rate /\ counts.requests > r.minReq /\ ErrorRateAbove(counts, r.num, r.den))

(***************************************************************************)
(* The breaker's methods as functions on the breaker record                *)
(* [state, generation, counts, expiry].                                    *)
(***************************************************************************)
toNewGenerationKeepsCounts(b, t) ==
  [b EXCEPT !.generation = b.generation + 1,
            !.expiry = CASE b.state = StateClosed ->
                              IF cfg.interval = 0 THEN 0 ELSE t + cfg.interval
                         [] b.state = StateOpen -> t + cfg.timeout
                         [] OTHER -> 0]

toNewGeneration(b, t) ==
  [b EXCEPT !.generation = b.generation + 1,
            !.counts = ZeroCounts,
            !.expiry = CASE b.state = StateClosed ->
                              IF cfg.interval = 0 THEN 0 ELSE t + cfg.interval
                         [] b.state = StateOpen -> t + cfg.timeout
                         [] OTHER -> 0]

setState(b, s, t) ==
  IF b.state = s THEN b ELSE toNewGeneration([b EXCEPT !.state = s], t)

currentStateNotAfter(b, t) ==
  CASE b.state = StateClosed ->
         IF b.expiry # 0 /\ b.expiry <= t THEN toNewGeneration(b, t) ELSE b
    [] b.state = StateOpen ->
         IF b.expiry <= t THEN setState(b, StateHalfOpen, t) ELSE b
    [] OTHER -> b

currentState(b, t) ==
  CASE b.state = StateClosed ->
         IF b.expiry # 0 /\ b.expiry < t THEN toNewGeneration(b, t) ELSE b
    [] b.state = StateOpen ->
         IF b.expiry < t THEN setState(b, StateHalfOpen, t) ELSE b
    [] OTHER -> b

onSuccessAfterMaxRequests(b, s, t) ==
  LET c == [b.counts EXCEPT !.totalSuccesses = @ + 1,
                            !.consecutiveSuccesses = @ + 1,
                            !.consecutiveFailures = 0]
      b1 == [b EXCEPT !.counts = c]
  IN IF s = StateHalfOpen /\ c.consecutiveSuccesses >= cfg.maxRequests
     THEN setState(b1, StateClosed, t) ELSE b1

onSuccess(b, s, t) ==
  LET c == [b.counts EXCEPT !.totalSuccesses = @ + 1,
                            !.consecutiveSuccesses = @ + 1,
                            !.consecutiveFailures = 0]
      b1 == [b EXCEPT !.counts = c]
  IN IF s = StateHalfOpen THEN setState(b1, StateClosed, t) ELSE b1

onFailureTripsOnOldCounts(b, s, t) ==
  LET c == [b.counts EXCEPT !.totalFailures = @ + 1,
                            !.consecutiveFailures = @ + 1,
                            !.consecutiveSuccesses = 0]
      b1 == [b EXCEPT !.counts = c]
  IN IF ReadyToTrip(b.counts) THEN setState(b1, StateOpen, t) ELSE b1

onFailure(b, s, t) ==
  LET c == [b.counts EXCEPT !.totalFailures = @ + 1,
                            !.consecutiveFailures = @ + 1,
                            !.consecutiveSuccesses = 0]
      b1 == [b EXCEPT !.counts = c]
  IN IF ReadyToTrip(c) THEN setState(b1, StateOpen, t) ELSE b1

\* the error beforeRequest returns for the state currentState reported
admissionErrorOffByOne(s, counts) ==
  IF s = StateOpen THEN ErrOpenState
  ELSE IF s = StateHalfOpen /\ counts.requests > cfg.maxRequests
       THEN ErrTooManyRequests
       ELSE NoError

admissionErrorIgnoresOpen(s, counts) ==
  IF s = StateHalfOpen /\ counts.requests >= cfg.maxRequests
  THEN ErrTooManyRequests
  ELSE NoError

admissionError(s, counts) ==
  IF s = StateOpen THEN ErrOpenState
  ELSE IF s = StateHalfOpen /\ counts.requests >= cfg.maxRequests
       THEN ErrTooManyRequests
       ELSE NoError

\* afterRequest's test "generation != before"
staleNever(g, bef) == FALSE

stale(g, bef) == g # bef

(***************************************************************************)
(* The bound on the requests of one closed generation.                     *)
(***************************************************************************)
MaxCount ==
  LET r == cfg.readyToTrip
      reads == IF r.rate /\ r.minReq > r.consec THEN r.minReq ELSE r.consec + 1
  IN reads + MaxExtra

(***************************************************************************)
(* Initial state: NewCircuitBreaker has run toNewGeneration once.          *)
(***************************************************************************)
NewCircuitBreaker(t) ==
  toNewGeneration([state |-> StateClosed, generation |-> 0,
                   counts |-> ZeroCounts, expiry |-> 0], t)

NoLast == [op |-> "none", err |-> NoError, state |-> StateClosed]

\* no Counts() was called and no onStateChange
NoProbe == [counts |-> ZeroCounts, generation |-> 0, changed |-> FALSE,
            holder |-> 0]

\* setState calls cb.onStateChange(cb.name, prev, state) when the state has
\* changed; holder is the caller whose Lock() of cb.mutex is in force
onStateChange(prev, state, holder) ==
  IF prev = state THEN NoProbe
  ELSE [NoProbe EXCEPT !.changed = TRUE, !.holder = holder]

CBInit ==
  /\ cfg \in Configs
  /\ now = 1
  /\ cb = NewCircuitBreaker(1)
  /\ mutex = 0
  /\ pc = [p \in Procs |-> "idle"]
  /\ before = [p \in Procs |-> 0]
  /\ obsState = StateClosed
  /\ obsGeneration = 0
  /\ success = FALSE
  /\ admits = 0
  /\ last = NoLast
  /\ probe = NoProbe

\* the observer of C7: calls admitted in the breaker's current generation
admitsAfter(b2, admitted) ==
  (IF b2.generation # cb.generation THEN 0 ELSE admits) + (IF admitted THEN 1 ELSE 0)

(***************************************************************************)
(* Execute, step 1: beforeRequest takes the mutex, reads the clock and     *)
(* calls currentState.                                                     *)
(***************************************************************************)
BeforeLock(p) ==
  /\ pc[p] = "idle"
  /\ mutex = 0
  /\ (cb.state = StateClosed => cb.counts.requests < MaxCount)
  /\ LET b2 == currentState(cb, now) IN
       /\ cb' = b2
       /\ obsState' = b2.state
       /\ obsGeneration' = b2.generation
       /\ admits' = admitsAfter(b2, FALSE)
  /\ mutex' = p
  /\ pc' = [pc EXCEPT ![p] = "before"]
  /\ last' = [op |-> "beforeLock", err |-> NoError, state |-> cb'.state]
  /\ probe' = onStateChange(cb.state, cb'.state, p)
  /\ UNCHANGED <<cfg, now, before, success>>
  /\ UNCHANGED outsideCB

(***************************************************************************)
(* Execute, step 2: beforeRequest rejects the call or counts it, and       *)
(* releases the mutex.  A rejected call returns without running fn.        *)
(***************************************************************************)
BeforeDecide(p) ==
  /\ pc[p] = "before"
  /\ mutex = p
  /\ LET e == admissionError(obsState, cb.counts) IN
       /\ cb' = IF e = NoError
                THEN [cb EXCEPT !.counts.requests = @ + 1]
                ELSE cb
       /\ pc' = [pc EXCEPT ![p] = IF e = NoError THEN "running" ELSE "idle"]
       /\ admits' = IF e = NoError THEN admits + 1 ELSE admits
       /\ before' = [before EXCEPT ![p] = IF e = NoError THEN obsGeneration ELSE 0]
       /\ last' = [op |-> "beforeRequest", err |-> e, state |-> obsState]
  /\ probe' = NoProbe
  /\ mutex' = 0
  /\ obsState' = StateClosed
  /\ obsGeneration' = 0
  /\ UNCHANGED <<cfg, now, success>>
  /\ UNCHANGED outsideCB

(***************************************************************************)
(* Execute, step 3: fn has returned (ok = isSuccessful(err)) or panicked   *)
(* (ok = FALSE); afterRequest takes the mutex, reads the clock and calls   *)
(* currentState.                                                           *)
(***************************************************************************)
AfterLock(p) ==
  /\ pc[p] = "running"
  /\ mutex = 0
  /\ \E ok \in BOOLEAN : success' = ok
  /\ LET b2 == currentState(cb, now) IN
       /\ cb' = b2
       /\ obsState' = b2.state
       /\ obsGeneration' = b2.generation
       /\ admits' = admitsAfter(b2, FALSE)
  /\ mutex' = p
  /\ pc' = [pc EXCEPT ![p] = "after"]
  /\ last' = [op |-> "afterLock", err |-> NoError, state |-> cb'.state]
  /\ probe' = onStateChange(cb.state, cb'.state, p)
  /\ UNCHANGED <<cfg, now, before>>
  /\ UNCHANGED outsideCB

(***************************************************************************)
(* Execute, step 4: afterRequest discards the outcome of a call of an      *)
(* older generation, or accounts it, and releases the mutex.               *)
(***************************************************************************)
AfterDecide(p) ==
  /\ pc[p] = "after"
  /\ mutex = p
  /\ LET b2 == IF stale(obsGeneration, before[p]) THEN cb
               ELSE IF success THEN onSuccess(cb, obsState, now)
               ELSE onFailure(cb, obsState, now)
     IN /\ cb' = b2
        /\ admits' = admitsAfter(b2, FALSE)
        /\ last' = [op |-> IF stale(obsGeneration, before[p]) THEN "discarded"
                           ELSE IF success THEN "onSuccess" ELSE "onFailure",
                    err |-> NoError, state |-> obsState]
        /\ probe' = onStateChange(cb.state, b2.state, p)
  /\ mutex' = 0
  /\ pc' = [pc EXCEPT ![p] = "idle"]
  /\ before' = [before EXCEPT ![p] = 0]
  /\ obsState' = StateClosed
  /\ obsGeneration' = 0
  /\ success' = FALSE
  /\ UNCHANGED <<cfg, now>>
  /\ UNCHANGED outsideCB

(***************************************************************************)
(* State(): currentState under the mutex.                                  *)
(***************************************************************************)
State ==
  /\ mutex = 0
  /\ LET b2 == currentState(cb, now) IN
       /\ cb' = b2
       /\ admits' = admitsAfter(b2, FALSE)
  /\ last' = [op |-> "State", err |-> NoError, state |-> cb'.state]
  /\ probe' = onStateChange(cb.state, cb'.state, Reader)
  /\ UNCHANGED <<cfg, now, mutex, pc, before, obsState, obsGeneration, success>>
  /\ UNCHANGED outsideCB

(***************************************************************************)
(* Counts(): cb.counts under the mutex.                                    *)
(***************************************************************************)
Counts ==
  /\ mutex = 0
  /\ last' = [op |-> "Counts", err |-> NoError, state |-> cb.state]
  /\ probe' = [NoProbe EXCEPT !.counts = cb.counts,
                              !.generation = cb.generation]
  /\ UNCHANGED <<cfg, cb, now, mutex, pc, before, obsState, obsGeneration,
                 success, admits>>
  /\ UNCHANGED outsideCB

(***************************************************************************)
(* The clock.  A critical section reads the clock once, when it takes the  *)
(* mutex, so time that passes inside one is time that passes after it.     *)
(***************************************************************************)
Tick ==
  /\ mutex = 0
  /\ now < MaxTime
  /\ now' = now + 1
  /\ last' = [op |-> "tick", err |-> NoError, state |-> cb.state]
  /\ probe' = NoProbe
  /\ UNCHANGED <<cfg, cb, mutex, pc, before, obsState, obsGeneration, success,
                 admits>>
  /\ UNCHANGED outsideCB

CBNext ==
  \/ \E p \in Procs : BeforeLock(p)
  \/ \E p \in Procs : BeforeDecide(p)
  \/ \E p \in Procs : AfterLock(p)
  \/ \E p \in Procs : AfterDecide(p)
  \/ State
  \/ Counts
  \/ Tick

(***************************************************************************)
(* The load balancer (internal/services/load_balancer.go).                 *)
(***************************************************************************)
RoundRobin == "round-robin"
WeightedRoundRobin == "weighted-round-robin"
Random == "random"
LeastConnections == "least-connections"

Strategies == {RoundRobin, WeightedRoundRobin, Random, LeastConnections}

\* the addresses and ports the orchestrator reports
Addresses ==
  { [ip |-> "10.0.0.1", port |-> 80],
    [ip |-> "10.0.0.2", port |-> 8080],
    [ip |-> "10.0.0.3", port |-> 8080] }

\* k8s.ServiceEndpoint
ServiceEndpoints ==
  { [ip |-> a.ip, port |-> a.port, ready |-> r] : a \in Addresses, r \in BOOLEAN }

\* k8s.ServiceEndpoint{}
EmptyEndpoint == [ip |-> "", port |-> 0, ready |-> FALSE]

\* `selected` when the balancer's last operation was not SelectEndpoint
NotCalled == [ip |-> "not called", port |-> 0, ready |-> FALSE]

\* the endpoint slices a service event carries: each address at most once
EndpointLists ==
  { l \in UNION { [1..n -> ServiceEndpoints] : n \in 0..Cardinality(Addresses) } :
      \A i, j \in DOMAIN l : i # j => l[i].ip # l[j].ip }

\* string(rune(port)): the one code point `port`, U+FFFD when it is no valid one
RuneString(port) ==
  IF port < 0 \/ port > 1114111 \/ (port >= 55296 /\ port <= 57343)
  THEN <<"U+", 65533>>
  ELSE <<"U+", port>>

\* fmt's decimal form of a port, as in "10.0.0.1:8080"
DecimalString(port) == <<"decimal", port>>

\* endpoint.IP + ":" + string(rune(endpoint.Port))
EndpointKey(e) == <<e.ip, ":", RuneString(e.port)>>

\* the key "ip:port" of the configuration
AddressKey(e) == <<e.ip, ":", DecimalString(e.port)>>

\* the weights maps a weighted round-robin strategy is built with: nil (as
\* GetOrCreateLoadBalancer passes), and maps under either form of key
WeightMaps ==
  { <<>>,
    [k \in {AddressKey(a) : a \in Addresses} |->
       IF k[1] = "10.0.0.1" THEN 2 ELSE 1],
    [k \in {EndpointKey(a) : a \in Addresses} |->
       IF k[1] = "10.0.0.1" THEN 2 ELSE IF k[1] = "10.0.0.2" THEN 0 ELSE 1] }

getHealthyEndpointsUnfiltered(eps) == eps

getHealthyEndpoints(eps) == SelectSeq(eps, LAMBDA e : e.ready)

\* Go's x % y for x >= 0 and y # 0
GoRem(x, y) == x % (IF y < 0 THEN -y ELSE y)

\* Each strategy's SelectEndpoint on a non-empty slice: the endpoint it returns
\* and the counter it leaves.
RoundRobinStuck(eps, cur) ==
  [endpoint |-> eps[GoRem(cur, Len(eps)) + 1], current |-> cur]

RoundRobinSelect(eps, cur) ==
  [endpoint |-> eps[GoRem(cur, Len(eps)) + 1], current |-> cur + 1]

WeightOf(e) ==
  IF EndpointKey(e) \in DOMAIN weights THEN weights[EndpointKey(e)] ELSE 1

RECURSIVE SumWeights(_)
SumWeights(eps) ==
  IF eps = <<>> THEN 0 ELSE WeightOf(Head(eps)) + SumWeights(Tail(eps))

\* the walk of the second loop: the first index whose accumulated weight
\* exceeds target, 0 when there is none
RECURSIVE WeightedWalk(_, _, _, _)
WeightedWalk(eps, i, acc, target) ==
  IF i > Len(eps) THEN 0
  ELSE IF acc + WeightOf(eps[i]) > target THEN i
       ELSE WeightedWalk(eps, i + 1, acc + WeightOf(eps[i]), target)

WeightedRoundRobinSelect(eps, cur) ==
  LET totalWeight == SumWeights(eps) IN
  IF totalWeight = 0 THEN [endpoint |-> eps[1], current |-> cur]
  ELSE LET i == WeightedWalk(eps, 1, 0, GoRem(cur, totalWeight)) IN
       IF i = 0 THEN [endpoint |-> eps[1], current |-> cur]
       ELSE [endpoint |-> eps[i], current |-> cur + 1]

\* the loop of LeastConnectionsStrategy.SelectEndpoint from index i on
RECURSIVE LeastConnectionsScan(_, _, _, _)
LeastConnectionsScan(eps, i, minConnections, sel) ==
  IF i > Len(eps) THEN sel
  ELSE LET n == connections[EndpointKey(eps[i])] IN
       IF minConnections = -1 \/ n < minConnections
       THEN LeastConnectionsScan(eps, i + 1, n, eps[i])
       ELSE LeastConnectionsScan(eps, i + 1, minConnections, sel)

LeastConnectionsSelect(eps, cur) ==
  [endpoint |-> LeastConnectionsScan(eps, 1, -1, EmptyEndpoint), current |-> cur]

\* rand.Int yields any index; on an error the first endpoint is returned
RandomSelections(eps, cur) ==
  { [endpoint |-> eps[i], current |-> cur] : i \in 1..Len(eps) }

\* the results strategy.SelectEndpoint(eps) can have on a non-empty slice
StrategySelections(eps, cur) ==
  CASE strategy = RoundRobin -> {RoundRobinSelect(eps, cur)}
    [] strategy = WeightedRoundRobin -> {WeightedRoundRobinSelect(eps, cur)}
    [] strategy = LeastConnections -> {LeastConnectionsSelect(eps, cur)}
    [] OTHER -> RandomSelections(eps, cur)

\* updateStats
updateStats(st, eps) ==
  [st EXCEPT !.healthyEndpoints = Len(SelectSeq(eps, LAMBDA e : e.ready)),
             !.unhealthyEndpoints = Len(SelectSeq(eps, LAMBDA e : ~e.ready))]

\* NewLoadBalancer
NewStats ==
  [totalRequests |-> 0, endpointRequests |-> <<>>, lastSelected |-> "",
   lastSelectedTime |-> 0, healthyEndpoints |-> 0, unhealthyEndpoints |-> 0]

NoConnections == [k \in {EndpointKey(a) : a \in Addresses} |-> 0]

RECURSIVE OpenConnections(_)
OpenConnections(keys) ==
  IF keys = {} THEN 0
  ELSE LET k == CHOOSE x \in keys : TRUE
       IN connections[k] + OpenConnections(keys \ {k})

LBInit ==
  /\ strategy \in Strategies
  /\ weights \in (IF strategy = WeightedRoundRobin THEN WeightMaps ELSE {<<>>})
  /\ endpoints = <<>>
  /\ current = 0
  /\ connections = NoConnections
  /\ stats = NewStats
  /\ selected = NotCalled
  /\ picks = <<>>

\* UpdateEndpoints(eps)
UpdateEndpoints(eps) ==
  /\ endpoints' = eps
  /\ stats' = updateStats(stats, eps)
  /\ picks' = IF eps = endpoints THEN picks ELSE <<>>
  /\ selected' = NotCalled
  /\ UNCHANGED <<strategy, weights, current, connections>>
  /\ UNCHANGED outsideLB

\* SelectEndpoint()
SelectEndpoint ==
  /\ stats.totalRequests < MaxSelections
  /\ LET healthyEndpoints == getHealthyEndpoints(endpoints) IN
       IF Len(healthyEndpoints) = 0
       THEN /\ selected' = EmptyEndpoint
            /\ UNCHANGED <<current, stats, picks>>
       ELSE \E r \in StrategySelections(healthyEndpoints, current) :
              LET endpointKey == EndpointKey(r.endpoint)
                  n == IF endpointKey \in DOMAIN stats.endpointRequests
                       THEN stats.endpointRequests[endpointKey] ELSE 0
              IN /\ selected' = r.endpoint
                 /\ current' = r.current
                 /\ stats' = [stats EXCEPT
                      !.totalRequests = @ + 1,
                      !.endpointRequests =
                         [k \in DOMAIN @ \cup {endpointKey} |->
                            IF k = endpointKey THEN n + 1 ELSE @[k]],
                      !.lastSelected = endpointKey,
                      !.lastSelectedTime = now]
                 /\ picks' = IF strategy \in {RoundRobin, WeightedRoundRobin}
                              THEN Append(picks, r.endpoint) ELSE picks
  /\ UNCHANGED <<strategy, weights, endpoints, connections>>
  /\ UNCHANGED outsideLB

\* LeastConnectionsStrategy.IncrementConnections(e): the caller counts the
\* connection it opens to the endpoint SelectEndpoint has just returned
IncrementConnections(e) ==
  /\ strategy = LeastConnections
  /\ selected = e
  /\ OpenConnections(DOMAIN connections) < MaxConnections
  /\ connections' = [connections EXCEPT ![EndpointKey(e)] = @ + 1]
  /\ selected' = NotCalled
  /\ UNCHANGED <<strategy, weights, endpoints, current, stats, picks>>
  /\ UNCHANGED outsideLB

\* LeastConnectionsStrategy.DecrementConnections(e)
DecrementConnections(e) ==
  /\ strategy = LeastConnections
  /\ connections' = IF connections[EndpointKey(e)] > 0
                    THEN [connections EXCEPT ![EndpointKey(e)] = @ - 1]
                    ELSE connections
  /\ selected' = NotCalled
  /\ UNCHANGED <<strategy, weights, endpoints, current, stats, picks>>
  /\ UNCHANGED outsideLB

LBNext ==
  \/ \E eps \in EndpointLists : UpdateEndpoints(eps)
  \/ SelectEndpoint
  \/ \E e \in ServiceEndpoints : IncrementConnections(e)
  \/ \E e \in Addresses : DecrementConnections(e)

(***************************************************************************)
(* Service discovery (internal/k8s/discovery.go) and the two route tables  *)
(* its events feed: DiscoveryManager.routes and                            *)
(* DynamicRouteManager.dynamicRoutes.  The method and load-balancing       *)
(* annotations are left at their defaults, and no Endpoints object has     *)
(* been seen, so that a discovered service has no endpoints and no load    *)
(* balancer exists for UpdateServiceEndpoints to refresh.                  *)
(***************************************************************************)
ServiceAdded == "ADDED"
ServiceModified == "MODIFIED"
ServiceDeleted == "DELETED"

\* capacity of ServiceDiscovery.eventCh
EventChCap == 100

\* the value of an annotation the object does not carry
Absent == "<absent>"

ServiceNames == {"orders", "users"}

\* The gateway.io/ annotations of a Service object (enabled, path,
\* auth-required): every routing choice of an enabled service, and a service
\* that says enabled=false or does not carry the marker.
AnnotationMaps ==
  [enabled : {"true"}, path : {Absent, "/shared"}, authRequired : {Absent, "true"}]
  \cup
  [enabled : {"false", Absent}, path : {Absent}, authRequired : {Absent}]

\* a nil *DiscoveredService
NilService ==
  [name |-> "", path |-> "", method |-> "", authRequired |-> FALSE,
   endpoints |-> <<>>]

shouldDiscoverService(annotations) ==
  IF annotations.enabled # Absent THEN annotations.enabled = "true" ELSE FALSE

createDiscoveredService(name, annotations) ==
  [name |-> name,
   path |-> IF annotations.path # Absent THEN annotations.path ELSE "/" \o name,
   method |-> "GET",
   authRequired |-> IF annotations.authRequired # Absent
                    THEN annotations.authRequired = "true" ELSE FALSE,
   endpoints |-> <<>>]

\* fmt.Sprintf("%s:%s", service.Method, service.Path)
routeKey(service) == service.method \o ":" \o service.path

\* map[key] = value
MapPut(m, key, value) ==
  [k \in DOMAIN m \cup {key} |-> IF k = key THEN value ELSE m[k]]

\* delete(map, key)
MapDelete(m, key) == [k \in DOMAIN m \ {key} |-> m[k]]

\* ServiceDiscovery.convertEndpoints(endpoints) of an Endpoints object with one
\* subset: the ready addresses, then the addresses that are not ready, all at
\* the subset's first port, or at 80 when it names none
convertEndpoints(eps) ==
  LET port == IF Len(eps.ports) > 0 THEN eps.ports[1] ELSE 80 IN
  [i \in 1..Len(eps.addresses) |->
     [ip |-> eps.addresses[i], port |-> port, ready |-> TRUE]]
  \o
  [i \in 1..Len(eps.notReadyAddresses) |->
     [ip |-> eps.notReadyAddresses[i], port |-> port, ready |-> FALSE]]

\* ServiceDiscovery.handleServiceEvent(service, eventType): sd.services and
\* sd.eventCh as it leaves them.  The field `object` of an event is an observer:
\* the service the notified object describes.  Its timestamp is the number of
\* the notification: the events are stamped under sd.mutex, one after another.
handleServiceEvent(name, annotations, eventType) ==
  IF ~shouldDiscoverService(annotations)
  THEN [services |-> services, eventCh |-> eventCh, dropped |-> dropped]
  ELSE LET discoveredService ==
             [createDiscoveredService(name, annotations) EXCEPT
                !.endpoints = IF name \in DOMAIN sdEndpoints
                              THEN convertEndpoints(sdEndpoints[name])
                              ELSE <<>>]
           svcs == IF eventType = ServiceDeleted
                   THEN MapDelete(services, name)
                   ELSE MapPut(services, name, discoveredService)
           event == [type |-> eventType,
                     service |-> IF name \in DOMAIN svcs THEN svcs[name]
                                 ELSE NilService,
                     object |-> createDiscoveredService(name, annotations),
                     timestamp |-> notified + 1]
       IN [services |-> svcs,
           eventCh |-> IF Len(eventCh) < EventChCap THEN Append(eventCh, event)
                       ELSE eventCh,
           dropped |-> IF Len(eventCh) < EventChCap THEN dropped ELSE event]

\* DiscoveryManager.updateRoutes(event)
updateRoutes(rts, event) ==
  LET service == event.service IN
  IF service = NilService THEN rts
  ELSE IF event.type \in {ServiceAdded, ServiceModified}
       THEN MapPut(rts, routeKey(service),
                   [path |-> service.path, method |-> service.method,
                    serviceName |-> service.name,
                    authRequired |-> service.authRequired,
                    endpoints |-> service.endpoints, service |-> service])
       ELSE MapDelete(rts, routeKey(service))

\* DynamicRouteManager.addRoute(service)
addRoute(drs, service) ==
  MapPut(drs, routeKey(service),
         [id |-> routeKey(service), path |-> service.path,
          method |-> service.method, serviceName |-> service.name,
          authRequired |-> service.authRequired, service |-> service])

\* DynamicRouteManager.updateRoute(service)
updateRoute(drs, service) ==
  IF routeKey(service) \notin DOMAIN drs THEN addRoute(drs, service)
  ELSE [drs EXCEPT ![routeKey(service)].service = service]

\* DynamicRouteManager.removeRoute(service)
removeRoute(drs, service) == MapDelete(drs, routeKey(service))

\* DynamicRouteManager.ProcessServiceEvent(event)
ProcessServiceEvent(drs, event) ==
  CASE event.type = ServiceAdded -> addRoute(drs, event.service)
    [] event.type = ServiceModified -> updateRoute(drs, event.service)
    [] event.type = ServiceDeleted -> removeRoute(drs, event.service)
    [] OTHER -> drs

\* drm.stats.TotalRoutes as ProcessServiceEvent(event) leaves it: addRoute
\* counts one more, removeRoute one less when it finds the key, and
\* updateRoute counts through addRoute when it does not find the key
TotalRoutes(drs, total, event) ==
  CASE event.type = ServiceAdded -> total + 1
    [] event.type = ServiceModified ->
         IF routeKey(event.service) \notin DOMAIN drs THEN total + 1 ELSE total
    [] event.type = ServiceDeleted ->
         IF routeKey(event.service) \in DOMAIN drs THEN total - 1 ELSE total
    [] OTHER -> total

\* the event processor NewDynamicRouteManager registers
DynamicRoutes == "DynamicRoutes"

\* handleServiceEvent's loop over dm.eventProcessors: the dynamic routes and
\* their count after every registered processor has seen the event
Processors(drs, event) ==
  IF DynamicRoutes \in eventProcessors THEN ProcessServiceEvent(drs, event)
  ELSE drs
ProcessorsTotalRoutes(drs, event) ==
  IF DynamicRoutes \in eventProcessors THEN TotalRoutes(drs, totalRoutes, event)
  ELSE totalRoutes

NoEvent ==
  [type |-> "none", service |-> NilService, object |-> NilService,
   timestamp |-> 0]

ReceiveNewest(ch) ==
  [event |-> ch[Len(ch)], rest |-> SubSeq(ch, 1, Len(ch) - 1)]

\* event := <-dm.serviceDiscovery.GetEventChannel(): the event received and
\* what stays in the channel
Receive(ch) == [event |-> Head(ch), rest |-> Tail(ch)]

SDInit ==
  /\ objects = <<>>
  /\ services = <<>>
  /\ eventCh = <<>>
  /\ routes = <<>>
  /\ dynamicRoutes = <<>>
  /\ consumer = "running"
  /\ notified = 0
  /\ latest = <<>>
  /\ processed = NoEvent
  /\ dropped = NoEvent
  /\ sdEndpoints = <<>>
  /\ eventProcessors = {DynamicRoutes}
  /\ totalRoutes = 0

\* the informer's AddFunc: the orchestrator reports a new Service object
AddFunc(name, annotations) ==
  /\ consumer # "panicked"
  /\ notified < MaxNotifications
  /\ name \notin DOMAIN objects
  /\ objects' = MapPut(objects, name, annotations)
  /\ LET sd == handleServiceEvent(name, annotations, ServiceAdded)
     IN services' = sd.services /\ eventCh' = sd.eventCh
        /\ dropped' = sd.dropped
  /\ notified' = notified + 1
  /\ UNCHANGED <<routes, dynamicRoutes, consumer, latest, processed,
                 sdEndpoints, eventProcessors, totalRoutes>>
  /\ UNCHANGED outsideSD

\* the informer's UpdateFunc: the object has changed, or the 30 s resync
\* reports it again as it is
UpdateFunc(name, annotations) ==
  /\ consumer # "panicked"
  /\ notified < MaxNotifications
  /\ name \in DOMAIN objects
  /\ objects' = MapPut(objects, name, annotations)
  /\ LET sd == handleServiceEvent(name, annotations, ServiceModified)
     IN services' = sd.services /\ eventCh' = sd.eventCh
        /\ dropped' = sd.dropped
  /\ notified' = notified + 1
  /\ UNCHANGED <<routes, dynamicRoutes, consumer, latest, processed,
                 sdEndpoints, eventProcessors, totalRoutes>>
  /\ UNCHANGED outsideSD

\* the informer's DeleteFunc: the object is gone; the handler is given the
\* object as it last was
DeleteFunc(name) ==
  /\ consumer # "panicked"
  /\ notified < MaxNotifications
  /\ name \in DOMAIN objects
  /\ objects' = MapDelete(objects, name)
  /\ LET sd == handleServiceEvent(name, objects[name], ServiceDeleted)
     IN services' = sd.services /\ eventCh' = sd.eventCh
        /\ dropped' = sd.dropped
  /\ notified' = notified + 1
  /\ UNCHANGED <<routes, dynamicRoutes, consumer, latest, processed,
                 sdEndpoints, eventProcessors, totalRoutes>>
  /\ UNCHANGED outsideSD

\* One turn of DiscoveryManager.processEvents: handleServiceEvent(event).  Its
\* first statement reads event.Service.Name, which panics on a nil service; the
\* panic is not recovered and ends the process.
processEvents ==
  /\ consumer = "running"
  /\ eventCh # <<>>
  /\ LET event == Receive(eventCh).event IN
       /\ eventCh' = Receive(eventCh).rest
       /\ processed' = event
       /\ IF event.service = NilService
          THEN /\ consumer' = "panicked"
               /\ UNCHANGED <<routes, dynamicRoutes, latest, totalRoutes>>
          ELSE /\ routes' = updateRoutes(routes, event)
               /\ dynamicRoutes' = Processors(dynamicRoutes, event)
               /\ totalRoutes' = ProcessorsTotalRoutes(dynamicRoutes, event)
               /\ latest' = IF event.type = ServiceDeleted
                            THEN MapDelete(latest, routeKey(event.service))
                            ELSE MapPut(latest, routeKey(event.service),
                                        event.service)
               /\ UNCHANGED consumer
  /\ UNCHANGED <<objects, services, notified, dropped, sdEndpoints,
                 eventProcessors>>
  /\ UNCHANGED outsideSD

\* The same turn in two steps, with the informer's callbacks between them.
\* First the receive and dm.updateRoutes(event) ...
processEvents_updateRoutes ==
  /\ consumer = "running"
  /\ eventCh # <<>>
  /\ LET event == Receive(eventCh).event IN
       /\ eventCh' = Receive(eventCh).rest
       /\ processed' = event
       /\ IF event.service = NilService
          THEN /\ consumer' = "panicked"
               /\ UNCHANGED routes
          ELSE /\ routes' = updateRoutes(routes, event)
               /\ consumer' = "delivering"
  /\ UNCHANGED <<objects, services, dynamicRoutes, notified, latest, dropped,
                 sdEndpoints, eventProcessors, totalRoutes>>
  /\ UNCHANGED outsideSD

\* ... then the loop over dm.eventProcessors: ProcessServiceEvent(event)
processEvents_deliver ==
  /\ consumer = "delivering"
  /\ dynamicRoutes' = Processors(dynamicRoutes, processed)
  /\ totalRoutes' = ProcessorsTotalRoutes(dynamicRoutes, processed)
  /\ latest' = IF processed.type = ServiceDeleted
               THEN MapDelete(latest, routeKey(processed.service))
               ELSE MapPut(latest, routeKey(processed.service),
                           processed.service)
  /\ consumer' = "running"
  /\ UNCHANGED <<objects, services, eventCh, routes, notified, processed,
                 dropped, sdEndpoints, eventProcessors>>
  /\ UNCHANGED outsideSD

\* service discovery with the consumer's turn in two steps
EONext ==
  \/ \E name \in ServiceNames, annotations \in AnnotationMaps :
       AddFunc(name, annotations)
  \/ \E name \in ServiceNames, annotations \in AnnotationMaps :
       UpdateFunc(name, annotations)
  \/ \E name \in ServiceNames : DeleteFunc(name)
  \/ processEvents_updateRoutes
  \/ processEvents_deliver

\* The informer's 30 s resync reports an object again as it is.  The period
\* is long beside the consumer's turn: the channel is empty when it comes.
Resync(name) ==
  /\ consumer # "panicked"
  /\ name \in DOMAIN objects
  /\ eventCh = <<>>
  /\ LET sd == handleServiceEvent(name, objects[name], ServiceModified)
     IN services' = sd.services /\ eventCh' = sd.eventCh
        /\ dropped' = sd.dropped
  /\ UNCHANGED <<objects, routes, dynamicRoutes, consumer, notified, latest,
                 processed, sdEndpoints, eventProcessors, totalRoutes>>
  /\ UNCHANGED outsideSD

\* the annotations of a service at its default path, without and with
\* auth-required
PlainAnnotations ==
  [enabled |-> "true", path |-> Absent, authRequired |-> Absent]
AuthAnnotations ==
  [enabled |-> "true", path |-> Absent, authRequired |-> "true"]

\* the event of a notification of the object of name as it is in a cluster
\* whose services carry PlainAnnotations
PlainEvent(eventType, name, timestamp) ==
  [type |-> eventType,
   service |-> createDiscoveredService(name, PlainAnnotations),
   object |-> createDiscoveredService(name, PlainAnnotations),
   timestamp |-> timestamp]

\* Service discovery when a burst of notifications has filled the channel:
\* the services "orders" and "users" were added and their routes built, and
\* EventChCap modified events wait for the consumer.  The notifications
\* before this state are numbered from below zero.
OVInit ==
  /\ objects = [name \in ServiceNames |-> PlainAnnotations]
  /\ services = [name \in ServiceNames |->
                   createDiscoveredService(name, PlainAnnotations)]
  /\ eventCh = [i \in 1..EventChCap |->
                  PlainEvent(ServiceModified,
                             IF i % 2 = 1 THEN "orders" ELSE "users",
                             i - EventChCap - 1)]
  /\ routes = updateRoutes(updateRoutes(<<>>,
                  PlainEvent(ServiceAdded, "orders", 0)),
                  PlainEvent(ServiceAdded, "users", 0))
  /\ dynamicRoutes = addRoute(addRoute(<<>>, services["orders"]),
                              services["users"])
  /\ consumer = "running"
  /\ notified = 0
  /\ latest = [k \in {routeKey(services[name]) : name \in ServiceNames} |->
                 dynamicRoutes[k].service]
  /\ processed = PlainEvent(ServiceAdded, "users", 0 - EventChCap - 1)
  /\ dropped = NoEvent
  /\ sdEndpoints = <<>>
  /\ eventProcessors = {DynamicRoutes}
  /\ totalRoutes = 2

\* the overflow: the object of "orders" changes, is deleted and created again
\* while the consumer works through the channel and the resync goes on
OVNext ==
  \/ \E annotations \in {PlainAnnotations, AuthAnnotations} :
       AddFunc("orders", annotations)
  \/ \E annotations \in {PlainAnnotations, AuthAnnotations} :
       UpdateFunc("orders", annotations)
  \/ DeleteFunc("orders")
  \/ \E name \in ServiceNames : Resync(name)
  \/ processEvents

\* the consumer is scheduled, and the resync timer fires
OVFairness ==
  /\ WF_vars(processEvents)
  /\ \A name \in ServiceNames : WF_vars(Resync(name))

SDNext ==
  \/ \E name \in ServiceNames, annotations \in AnnotationMaps :
       AddFunc(name, annotations)
  \/ \E name \in ServiceNames, annotations \in AnnotationMaps :
       UpdateFunc(name, annotations)
  \/ \E name \in ServiceNames : DeleteFunc(name)
  \/ processEvents

(***************************************************************************)
(* The request handler of the dynamic routes                               *)
(* (DynamicRouteManager.handleDynamicRoute).  Requests are handled         *)
(* concurrently: atProxy and inProxy hold the requests that are between    *)
(* two steps of the handler; they are the requests of one client, who      *)
(* sends the same Authorization header with each.  The selection of an     *)
(* endpoint does no                                                        *)
(* I/O and is one step with its Execute; the proxy call is two steps,      *)
(* the beforeRequest of its Execute and the return of proxy.ServeHTTP.     *)
(* The requests are handled within one interval of the breaker.  The      *)
(* route table is that of the events handled so far; where the event      *)
(* consumer runs beside the handlers it calls ProcessServiceEvent between  *)
(* two of their steps, with events of the service "orders" that carry a    *)
(* service which asks for no authentication.                               *)
(***************************************************************************)
\* the status net/http sends when a handler returns without writing
StatusOK == 200
StatusUnauthorized == 401
StatusNotFound == 404
StatusBadGateway == 502
StatusServiceUnavailable == 503

\* the Authorization header of a request, split at the first space: none, a
\* Basic credential, a bearer token the verifier rejects, one it accepts
NoAuthorization == <<>>
ValidToken == "valid"
Authorizations ==
  {NoAuthorization, <<"Basic", "dXNlcjpwdw==">>, <<"Bearer", "forged">>,
   <<"Bearer", ValidToken>>}

\* the requests the catch-all route receives
Requests == [method : {"GET"}, path : {"/orders", "/missing"}]

\* the route tables the events of a service "orders" leave: its endpoints are
\* those of the Endpoints object seen last
GatewayEndpointLists ==
  { <<[ip |-> "10.0.0.1", port |-> 80, ready |-> TRUE]>>,
    <<[ip |-> "10.0.0.1", port |-> 80, ready |-> FALSE]>>,
    <<[ip |-> "10.0.0.1", port |-> 80, ready |-> FALSE],
      [ip |-> "10.0.0.2", port |-> 8080, ready |-> TRUE]>> }

RouteTables ==
  {<<>>} \cup
  { addRoute(<<>>, [name |-> "orders", path |-> "/orders", method |-> "GET",
                    authRequired |-> a, endpoints |-> eps]) :
      a \in BOOLEAN, eps \in GatewayEndpointLists }

\* a nil *DynamicRouteInfo
NoRoute ==
  [id |-> "", path |-> "", method |-> "", serviceName |-> "",
   authRequired |-> FALSE, service |-> NilService]

\* DynamicRouteManager.findMatchingRoute(method, path)
findMatchingRoute(method, path) ==
  LET key == method \o ":" \o path IN
  IF key \in DOMAIN dynamicRoutes THEN dynamicRoutes[key] ELSE NoRoute

\* DynamicRouteManager.checkAuthentication(w, r): TRUE, or the status written
checkAuthentication(authHeader) ==
  IF authHeader = NoAuthorization
  THEN [ok |-> FALSE, status |-> StatusUnauthorized]
  ELSE IF authHeader[1] # "Bearer"
  THEN [ok |-> FALSE, status |-> StatusUnauthorized]
  ELSE [ok |-> TRUE, status |-> 0]

\* jwt.Service.VerifyToken(tokenString) returns nil
VerifyToken(token) == token = ValidToken

\* strings.Contains(err.Error(), "circuit breaker")
IsBreakerError(err) == err \in {ErrTooManyRequests, ErrOpenState}

\* LoadBalancer.updateStats after a selection of endpoint e
statsAfterSelection(st, e) ==
  LET endpointKey == EndpointKey(e)
      n == IF endpointKey \in DOMAIN st.endpointRequests
           THEN st.endpointRequests[endpointKey] ELSE 0
  IN [st EXCEPT !.totalRequests = @ + 1,
                !.endpointRequests =
                   [k \in DOMAIN @ \cup {endpointKey} |->
                      IF k = endpointKey THEN n + 1 ELSE @[k]],
                !.lastSelected = endpointKey,
                !.lastSelectedTime = now]

\* afterRequest(before, success) on the breaker b
afterRequest(b, bef, ok) ==
  LET b1 == currentState(b, now) IN
  IF stale(b1.generation, bef) THEN b1
  ELSE IF ok THEN onSuccess(b1, b1.state, now) ELSE onFailure(b1, b1.state, now)

BagAdd(bag, x) ==
  [k \in DOMAIN bag \cup {x} |-> IF k \in DOMAIN bag THEN
                                     (IF k = x THEN bag[k] + 1 ELSE bag[k])
                                  ELSE 1]

BagRemove(bag, x) ==
  [k \in {y \in DOMAIN bag : y # x \/ bag[y] > 1} |->
     IF k = x THEN bag[k] - 1 ELSE bag[k]]

NoResponse ==
  [op |-> "none", status |-> 0, written |-> FALSE, forwarded |-> FALSE,
   outcome |-> "none"]

\* the requests in handleDynamicRoute at the same time
Handlers == 1..2

\* no request is between findMatchingRoute and proxyRequestEnhanced.  The
\* fields endpoints and endpoint are those of the request the handler
\* dispatched last.
IdleHandler ==
  [pc |-> "idle", authRequired |-> FALSE, endpoints |-> <<>>,
   endpoint |-> NotCalled]

\* the mutexes: drm.routesMutex, drm.statsMutex, lbm.mutex, lb.mutex,
\* cbm.mutex, cb.mutex, dm.routesMutex and sd.mutex
Locks ==
  {"drm.routesMutex", "drm.statsMutex", "lbm.mutex", "lb.mutex", "cbm.mutex",
   "cb.mutex", "dm.routesMutex", "sd.mutex"}

\* the goroutines: a request, the event consumer and a reader of the admin
\* endpoints
Goroutines == {"request", "consumer", "admin"}

\* a mutex nobody holds or waits for
Unlocked == [writer |-> "", queue |-> <<>>, readers |-> {}, waiting |-> {}]

CCInit ==
  /\ handlers = [h \in Handlers |-> IdleHandler]
  /\ locks = [l \in Locks |-> Unlocked]
  /\ goroutines = [g \in Goroutines |-> <<>>]

GWInit ==
  /\ authorization = NoAuthorization
  /\ atProxy = 0
  /\ inProxy = <<>>
  /\ totalRequests = 0
  /\ response = NoResponse
  /\ eventTypes = <<>>
  /\ CCInit

\* what the handler answers when it does not forward the request: `written`
\* says whether it wrote a status itself
Answer(op, status, written) ==
  [op |-> op, status |-> status, written |-> written, forwarded |-> FALSE,
   outcome |-> "none"]

\* the substrings isNetworkError looks for
NetworkErrors ==
  {"connection refused", "no such host", "network is unreachable", "timeout",
   "connection reset", "broken pipe"}

\* the errors a call through the breaker meets, each named by the substring of
\* NetworkErrors it contains, if any
isNetworkError(err) == err \in NetworkErrors

\* cbConfig.IsSuccessful(err)
isSuccessful(err) == IF err = NoError THEN TRUE ELSE ~isNetworkError(err)

\* the error of the selection's fn when no endpoint is ready
ErrNoHealthyEndpoints == "no healthy endpoints available"

\* How proxy.ServeHTTP ends: the backend's response is copied to the client;
\* the round trip fails with a transport error and the ErrorHandler is called;
\* or the copy of the response body fails and ServeHTTP panics with
\* http.ErrAbortHandler.
ProxyOutcomes == {"response", "abort", "connection refused"}

\* handleDynamicRoute from its start to the call of proxyRequestEnhanced:
\* findMatchingRoute, updateRouteStats, selectHealthyEndpointEnhanced (the load
\* balancer's UpdateEndpoints, and SelectEndpoint through the breaker) and
\* checkAuthentication
handleDynamicRoute(r) ==
  LET route == findMatchingRoute(r.method, r.path) IN
  IF route = NoRoute
  THEN /\ response' = Answer("no route", StatusOK, FALSE)
       /\ UNCHANGED <<cb, endpoints, current, stats, authorization, atProxy,
                      inProxy, totalRequests, eventTypes>>
       /\ UNCHANGED outsideGW
  ELSE /\ totalRequests < MaxArrivals
       /\ totalRequests' = totalRequests + 1
       /\ LET eps == route.service.endpoints
              b1 == currentState(cb, now)
              err == admissionError(b1.state, b1.counts)
              b2 == [b1 EXCEPT !.counts.requests = @ + 1]
              healthy == getHealthyEndpoints(eps)
              sel == RoundRobinSelect(healthy, current)
              auth == checkAuthentication(authorization)
          IN /\ endpoints' = eps
             /\ IF err # NoError
                THEN /\ cb' = b1
                     /\ stats' = updateStats(stats, eps)
                     /\ response' = Answer("selection rejected",
                                           StatusServiceUnavailable, TRUE)
                     /\ UNCHANGED <<current, atProxy>>
                ELSE IF Len(healthy) = 0
                THEN /\ cb' = afterRequest(b2, b1.generation,
                                           isSuccessful(ErrNoHealthyEndpoints))
                     /\ stats' = updateStats(stats, eps)
                     /\ response' = Answer("no endpoint",
                                           StatusServiceUnavailable, TRUE)
                     /\ UNCHANGED <<current, atProxy>>
                ELSE /\ cb' = afterRequest(b2, b1.generation, isSuccessful(NoError))
                     /\ current' = sel.current
                     /\ stats' = statsAfterSelection(updateStats(stats, eps),
                                                     sel.endpoint)
                     /\ IF route.authRequired /\ ~auth.ok
                        THEN /\ response' = Answer("unauthorized", auth.status,
                                                   TRUE)
                             /\ UNCHANGED atProxy
                        ELSE /\ atProxy' = atProxy + 1
                             /\ UNCHANGED response
       /\ UNCHANGED <<authorization, inProxy, eventTypes>>
       /\ UNCHANGED outsideGW

\* proxyRequestEnhanced, the beforeRequest of its Execute.  On a breaker error
\* handleDynamicRoute writes nothing, as the error text contains "circuit
\* breaker".
proxyBeforeRequest ==
  /\ atProxy > 0
  /\ atProxy' = atProxy - 1
  /\ LET b1 == currentState(cb, now)
         err == admissionError(b1.state, b1.counts)
     IN IF err # NoError
        THEN /\ cb' = b1
             /\ response' =
                  IF IsBreakerError(err)
                  THEN Answer("proxy rejected", StatusOK, FALSE)
                  ELSE Answer("proxy rejected", StatusServiceUnavailable, TRUE)
             /\ UNCHANGED inProxy
        ELSE /\ cb' = [b1 EXCEPT !.counts.requests = @ + 1]
             /\ inProxy' = BagAdd(inProxy, b1.generation)
             /\ UNCHANGED response
  /\ UNCHANGED <<endpoints, current, stats, authorization, totalRequests,
                 eventTypes>>
  /\ UNCHANGED outsideGW

\* proxyRequestEnhanced, the fn of its Execute and afterRequest: proxy.ServeHTTP
\* returns, after which fn returns (nil, nil), or panics.  The ErrorHandler
\* writes nothing.
proxyServeHTTP(generation, outcome) ==
  /\ generation \in DOMAIN inProxy
  /\ inProxy' = BagRemove(inProxy, generation)
  /\ cb' = afterRequest(cb, generation,
                        outcome # "abort" /\ isSuccessful(NoError))
  /\ response' =
       [op |-> "proxied", status |-> StatusOK,
        written |-> ~isNetworkError(outcome), forwarded |-> TRUE,
        outcome |-> outcome]
  /\ UNCHANGED <<endpoints, current, stats, authorization, atProxy,
                 totalRequests, eventTypes>>
  /\ UNCHANGED outsideGW

\* the events of the service "orders" that reach ProcessServiceEvent
DrmEvents ==
  { [type |-> t,
     service |-> [name |-> "orders", path |-> "/orders", method |-> "GET",
                  authRequired |-> a, endpoints |-> eps],
     object |-> [name |-> "orders", path |-> "/orders", method |-> "GET",
                 authRequired |-> a, endpoints |-> eps]] :
      t \in {ServiceAdded, ServiceModified, ServiceDeleted},
      a \in {FALSE}, eps \in GatewayEndpointLists }

\* lbm.loadBalancers[serviceName] exists: GetOrCreateLoadBalancer builds the
\* load balancer of a service when its route is first requested
loadBalancerExists == totalRequests > 0

UpdateServiceEndpointsAnew(st, eps) ==
  [endpoints |-> eps, current |-> 0, stats |-> updateStats(NewStats, eps)]

\* LoadBalancerManager.UpdateServiceEndpoints(serviceName, endpoints): the
\* load balancer's endpoints, current and stats as it leaves them
UpdateServiceEndpoints(st, eps) ==
  IF loadBalancerExists
  THEN [endpoints |-> eps, current |-> current, stats |-> updateStats(st, eps)]
  ELSE [endpoints |-> endpoints, current |-> current, stats |-> st]

\* whether addRoute or updateRoute handles the event
updatesEndpoints(event) == event.type \in {ServiceAdded, ServiceModified}

\* DynamicRouteManager.ProcessServiceEvent(event), as the event consumer calls it
DrmProcessServiceEvent(event) ==
  /\ TotalRoutes(dynamicRoutes, totalRoutes, event) <= MaxCounted
  /\ dynamicRoutes' = ProcessServiceEvent(dynamicRoutes, event)
  /\ totalRoutes' = TotalRoutes(dynamicRoutes, totalRoutes, event)
  /\ LET lb == UpdateServiceEndpoints(stats, event.service.endpoints) IN
       IF updatesEndpoints(event)
       THEN endpoints' = lb.endpoints /\ current' = lb.current /\ stats' = lb.stats
       ELSE UNCHANGED <<endpoints, current, stats>>
  /\ eventTypes' = IF Len(eventTypes) < 2 THEN Append(eventTypes, event.type)
                   ELSE <<eventTypes[2], event.type>>
  /\ UNCHANGED <<cb, authorization, atProxy, inProxy, totalRequests, response>>
  /\ UNCHANGED <<cfg, now, mutex, pc, before, obsState, obsGeneration, success,
                 admits, last, probe, strategy, weights, connections, selected,
                 picks>>
  /\ UNCHANGED <<objects, services, eventCh, routes, consumer, notified, latest,
                 processed, dropped, sdEndpoints, eventProcessors>>
  /\ UNCHANGED <<rlVars, lcVars, ccVars>>

\* the request handlers beside the event consumer
EVNext ==
  \/ \E event \in DrmEvents : DrmProcessServiceEvent(event)
  \/ \E r \in Requests : totalRequests < MaxRouted /\ handleDynamicRoute(r)
  \/ proxyBeforeRequest
  \/ \E generation \in DOMAIN inProxy, outcome \in ProxyOutcomes :
       proxyServeHTTP(generation, outcome)

GWNext ==
  \/ \E r \in Requests : handleDynamicRoute(r)
  \/ proxyBeforeRequest
  \/ \E generation \in DOMAIN inProxy, outcome \in ProxyOutcomes :
       proxyServeHTTP(generation, outcome)

(***************************************************************************)
(* The rate limiter (middleware.RateLimiter).  Its clock rlNow counts      *)
(* ticks of 100 ms and a bucket holds tenths of a token, so that a limit   *)
(* of 1 token per second adds one tenth per tick.  The bucket is a         *)
(* golang.org/x/time/rate Limiter: it starts full, Allow first adds the    *)
(* tokens of the time since its last admission, up to burst, and then      *)
(* takes one token if there is one.  time.Sleep returns on time and a      *)
(* pass of cleanup takes no time.                                          *)
(***************************************************************************)
TicksPerSecond == 10
StatusTooManyRequests == 429
StatusInternalServerError == 500

\* rate.Limit (tokens per second), burst, cleanupInterval (ticks)
RateConfigs ==
  { [limit |-> 1, burst |-> 2, cleanupInterval |-> 3],
    [limit |-> 1, burst |-> 2, cleanupInterval |-> 15],
    [limit |-> 2, burst |-> 1, cleanupInterval |-> 5] }

ClientIPs == {"10.1.1.1", "10.1.1.2"}

\* r.RemoteAddr as net/http sets it, "ip:port": two connections of one client
\* and one of another
RemoteAddrs ==
  { <<"10.1.1.1", ":", 40000>>, <<"10.1.1.1", ":", 40001>>,
    <<"10.1.1.2", ":", 40000>> }

\* net.SplitHostPort(r.RemoteAddr)
SplitHostPort(remoteAddr) ==
  IF Len(remoteAddr) = 3 /\ remoteAddr[2] = ":"
  THEN [ip |-> remoteAddr[1], err |-> FALSE]
  ELSE [ip |-> "", err |-> TRUE]

\* rate.NewLimiter(rl.limit, rl.burst), first used at time t
NewLimiter(t) == [tokens |-> rl.burst * TicksPerSecond, last |-> t]

Min(a, b) == IF a < b THEN a ELSE b

\* the tokens (in tenths) of limiter lim at time t
TokensAt(lim, t) ==
  Min(rl.burst * TicksPerSecond, lim.tokens + (t - lim.last) * rl.limit)

AllowAlways(lim, t) ==
  [ok |-> TRUE, limiter |-> [tokens |-> TokensAt(lim, t), last |-> t]]

\* rate.Limiter.Allow() at time t: whether it admits, and the limiter after
Allow(lim, t) ==
  IF TokensAt(lim, t) >= TicksPerSecond
  THEN [ok |-> TRUE,
        limiter |-> [tokens |-> TokensAt(lim, t) - TicksPerSecond, last |-> t]]
  ELSE [ok |-> FALSE, limiter |-> lim]

cleanupKeepsTwice(cl, t) ==
  [ip \in {i \in DOMAIN cl : ~(t - cl[i].lastSeen > 2 * rl.cleanupInterval)}
     |-> cl[ip]]

\* one pass of RateLimiter.cleanup at time t
cleanupPass(cl, t) ==
  [ip \in {i \in DOMAIN cl : ~(t - cl[i].lastSeen > rl.cleanupInterval)}
     |-> cl[ip]]

RLInit ==
  /\ rl \in RateConfigs
  /\ clients = <<>>
  /\ rlNow = 0
  /\ nextCleanup = rl.cleanupInterval
  /\ hits = <<>>

\* the handler RateLimiter.Middleware(next) returns, on a request from
\* remoteAddr.  A hit records the IP, the time, the status the middleware
\* wrote (0 when it wrote none) and whether next.ServeHTTP was called.
Middleware(remoteAddr) ==
  /\ Len(hits) < MaxHits
  /\ LET split == SplitHostPort(remoteAddr)
         ip == split.ip
         limiter == IF ip \in DOMAIN clients THEN clients[ip].limiter
                    ELSE NewLimiter(rlNow)
         allow == Allow(limiter, rlNow)
     IN IF split.err
        THEN /\ hits' = Append(hits, [ip |-> ip, time |-> rlNow,
                                      status |-> StatusInternalServerError,
                                      next |-> FALSE])
             /\ UNCHANGED clients
        ELSE /\ clients' = MapPut(clients, ip, [limiter |-> allow.limiter,
                                                lastSeen |-> rlNow])
             /\ hits' = Append(hits,
                          [ip |-> ip, time |-> rlNow,
                           status |-> IF allow.ok THEN 0
                                      ELSE StatusTooManyRequests,
                           next |-> allow.ok])
  /\ UNCHANGED <<rl, rlNow, nextCleanup>>
  /\ UNCHANGED outsideRL

\* RateLimiter.cleanup wakes from time.Sleep(rl.cleanupInterval) and makes one
\* pass over the map
cleanup ==
  /\ rlNow = nextCleanup
  /\ clients' = cleanupPass(clients, rlNow)
  /\ nextCleanup' = rlNow + rl.cleanupInterval
  /\ UNCHANGED <<rl, rlNow, hits>>
  /\ UNCHANGED outsideRL

\* 100 ms pass; the pass of cleanup that is due is made first
RLTick ==
  /\ rlNow < MaxTicks
  /\ rlNow < nextCleanup
  /\ rlNow' = rlNow + 1
  /\ UNCHANGED <<rl, clients, nextCleanup, hits>>
  /\ UNCHANGED outsideRL

RLNext ==
  \/ \E remoteAddr \in RemoteAddrs : Middleware(remoteAddr)
  \/ cleanup
  \/ RLTick

(***************************************************************************)
(* The life cycle of the gateway (router.Setup) and its static routes.     *)
(* Setup has started the server and the background goroutines: the event   *)
(* consumer DiscoveryManager.processEvents, RateLimiter.cleanup and, when   *)
(* service discovery is off, one HealthManager.checkTargetHealth per        *)
(* unique target URL.  The events the consumer receives here are added and *)
(* modified events.  A goroutine is at its select (or its sleep), busy, or   *)
(* has returned.                                                           *)
(***************************************************************************)
\* cfg.Kubernetes.Enabled and cfg.Kubernetes.ServiceDiscovery
KubernetesConfigs == [enabled : BOOLEAN, serviceDiscovery : BOOLEAN]

\* a target_url of gateway.yaml: its scheme as written, and the rest
TargetUrls == {<<"http", "://users:8080">>, <<"HTTP", "://orders:8080">>}

\* url.Parse(route.TargetUrl) followed by String(): Parse lowers the scheme
URLString(targetUrl) ==
  <<IF targetUrl[1] = "HTTP" THEN "http" ELSE targetUrl[1], targetUrl[2]>>

\* ProxyRoute.Routes
StaticRoutes ==
  { [path |-> "/users", targetUrl |-> <<"http", "://users:8080">>,
     authRequired |-> TRUE],
    [path |-> "/profile", targetUrl |-> <<"http", "://users:8080">>,
     authRequired |-> FALSE],
    [path |-> "/orders", targetUrl |-> <<"HTTP", "://orders:8080">>,
     authRequired |-> FALSE] }

\* the goroutines Setup leaves running
ConsumerTask == <<"processEvents">>
CleanupTask == <<"cleanup">>
ProbeTask(targetUrl) == <<"checkTargetHealth", targetUrl>>
Tasks == {ConsumerTask, CleanupTask} \cup {ProbeTask(u) : u \in TargetUrls}

\* what hm.client.Get(targetURL + "/health") returns: resp (its status code, 0
\* when resp is nil) and err
ProbeResults ==
  { [status |-> 200, err |-> FALSE], [status |-> 399, err |-> FALSE],
    [status |-> 400, err |-> FALSE], [status |-> 503, err |-> FALSE],
    [status |-> 0, err |-> TRUE], [status |-> 302, err |-> TRUE] }

\* no probe of the target has completed
NoProbeYet == [status |-> 0, err |-> FALSE]

isHealthyAlways(result) == TRUE

\* performCheck: isHealthy
isHealthy(result) ==
  IF result.status # 0
  THEN ~result.err /\ result.status >= 200 /\ result.status < 400
  ELSE FALSE

\* HealthManager.IsHealthy(targetURL): hm.statuses[targetURL]
IsHealthy(key) == IF key \in DOMAIN statuses THEN statuses[key] ELSE FALSE

\* AuthMiddleware.Middleware(authRequired): whether next is called
AuthMiddleware(authRequired, authHeader) ==
  IF ~authRequired THEN TRUE
  ELSE IF authHeader = NoAuthorization THEN FALSE
  ELSE IF authHeader[1] # "Bearer" THEN FALSE
  ELSE VerifyToken(authHeader[2])

NotServed == [op |-> "none", route |-> "", status |-> 0, contacted |-> FALSE]

LCInit ==
  /\ k8s \in KubernetesConfigs
  /\ setup = "serving"
  /\ dmStopCh = "open"
  /\ hmStopCh = "open"
  /\ task = [t \in Tasks |->
               CASE t = ConsumerTask ->
                      IF k8s.enabled /\ k8s.serviceDiscovery THEN "select"
                      ELSE "returned"
                 [] t = CleanupTask -> "sleep"
                 [] OTHER -> IF k8s.serviceDiscovery THEN "not started"
                             ELSE "select"]
  /\ queued = 0
  /\ statuses = <<>>
  /\ lastProbe = [t \in TargetUrls |-> NoProbeYet]
  /\ served = NotServed

\* ServiceDiscovery.handleServiceEvent sends an event, until its informers
\* are stopped
informerEvent ==
  /\ k8s.enabled /\ k8s.serviceDiscovery
  /\ dmStopCh = "open"
  /\ queued < MaxQueued
  /\ queued' = queued + 1
  /\ UNCHANGED <<k8s, setup, dmStopCh, hmStopCh, task, statuses, lastProbe,
                 served>>
  /\ UNCHANGED outsideLC

\* DiscoveryManager.processEvents: one pass of its select, and the handling of
\* the event received
processEvents_select ==
  /\ task[ConsumerTask] = "select"
  /\ \/ /\ queued > 0
        /\ queued' = queued - 1
        /\ task' = [task EXCEPT ![ConsumerTask] = "busy"]
     \/ /\ dmStopCh = "closed"
        /\ task' = [task EXCEPT ![ConsumerTask] = "returned"]
        /\ UNCHANGED queued
  /\ UNCHANGED <<k8s, setup, dmStopCh, hmStopCh, statuses, lastProbe, served>>
  /\ UNCHANGED outsideLC

processEvents_handled ==
  /\ task[ConsumerTask] = "busy"
  /\ task' = [task EXCEPT ![ConsumerTask] = "select"]
  /\ UNCHANGED <<k8s, setup, dmStopCh, hmStopCh, queued, statuses, lastProbe,
                 served>>
  /\ UNCHANGED outsideLC

\* RateLimiter.cleanup: time.Sleep returns, and the pass over the map ends
cleanup_wake ==
  /\ task[CleanupTask] = "sleep"
  /\ task' = [task EXCEPT ![CleanupTask] = "busy"]
  /\ UNCHANGED <<k8s, setup, dmStopCh, hmStopCh, queued, statuses, lastProbe,
                 served>>
  /\ UNCHANGED outsideLC

cleanup_pass ==
  /\ task[CleanupTask] = "busy"
  /\ task' = [task EXCEPT ![CleanupTask] = "sleep"]
  /\ UNCHANGED <<k8s, setup, dmStopCh, hmStopCh, queued, statuses, lastProbe,
                 served>>
  /\ UNCHANGED outsideLC

\* HealthManager.checkTargetHealth(targetURL): one pass of its select
checkTargetHealth(targetUrl) ==
  /\ task[ProbeTask(targetUrl)] = "select"
  /\ \/ /\ hmStopCh = "closed"
        /\ task' = [task EXCEPT ![ProbeTask(targetUrl)] = "returned"]
     \/ task' = [task EXCEPT ![ProbeTask(targetUrl)] = "busy"]
  /\ UNCHANGED <<k8s, setup, dmStopCh, hmStopCh, queued, statuses, lastProbe,
                 served>>
  /\ UNCHANGED outsideLC

\* HealthManager.performCheck(targetURL) completes with result
performCheck(targetUrl, result) ==
  /\ task[ProbeTask(targetUrl)] = "busy"
  /\ statuses' = MapPut(statuses, targetUrl, isHealthy(result))
  /\ lastProbe' = [lastProbe EXCEPT ![targetUrl] = result]
  /\ task' = [task EXCEPT ![ProbeTask(targetUrl)] = "select"]
  /\ served' = NotServed
  /\ UNCHANGED <<k8s, setup, dmStopCh, hmStopCh, queued>>
  /\ UNCHANGED outsideLC

\* a request for a static route: AuthMiddleware, then proxyHandler
proxyHandler(route, authHeader, outcome) ==
  /\ ~k8s.serviceDiscovery
  /\ setup \in {"serving", "signalled", "stopped"}
  /\ served' =
       IF ~AuthMiddleware(route.authRequired, authHeader)
       THEN [op |-> "unauthorized", route |-> route.path,
             status |-> StatusUnauthorized, contacted |-> FALSE]
       ELSE IF ~IsHealthy(URLString(route.targetUrl))
       THEN [op |-> "unhealthy", route |-> route.path,
             status |-> StatusServiceUnavailable, contacted |-> FALSE]
       ELSE [op |-> "proxied", route |-> route.path,
             status |-> IF isNetworkError(outcome) THEN StatusBadGateway
                        ELSE StatusOK,
             contacted |-> TRUE]
  /\ UNCHANGED <<k8s, setup, dmStopCh, hmStopCh, task, queued, statuses,
                 lastProbe>>
  /\ UNCHANGED outsideLC

\* Setup: the shutdown signal arrives
Setup_signal ==
  /\ setup = "serving"
  /\ setup' = "signalled"
  /\ UNCHANGED <<k8s, dmStopCh, hmStopCh, task, queued, statuses, lastProbe,
                 served>>
  /\ UNCHANGED outsideLC

\* Setup: discoveryManager.Stop()
Setup_Stop ==
  /\ setup = "signalled"
  /\ setup' = "stopped"
  /\ dmStopCh' = "closed"
  /\ UNCHANGED <<k8s, hmStopCh, task, queued, statuses, lastProbe, served>>
  /\ UNCHANGED outsideLC

\* Setup: server.Shutdown(shutdownCtx) returns, and Setup with it
Setup_Shutdown ==
  /\ setup = "stopped"
  /\ setup' = "returned"
  /\ UNCHANGED <<k8s, dmStopCh, hmStopCh, task, queued, statuses, lastProbe,
                 served>>
  /\ UNCHANGED outsideLC

LCNext ==
  \/ informerEvent
  \/ processEvents_select
  \/ processEvents_handled
  \/ cleanup_wake
  \/ cleanup_pass
  \/ \E targetUrl \in TargetUrls : checkTargetHealth(targetUrl)
  \/ \E targetUrl \in TargetUrls, result \in ProbeResults :
       performCheck(targetUrl, result)
  \/ \E route \in StaticRoutes, authHeader \in Authorizations,
        outcome \in {"response", "connection refused"} :
       proxyHandler(route, authHeader, outcome)
  \/ Setup_signal
  \/ Setup_Stop
  \/ Setup_Shutdown

\* every goroutine that can run is scheduled, and Setup goes on
LCFairness ==
  /\ WF_vars(processEvents_select)
  /\ WF_vars(processEvents_handled)
  /\ WF_vars(cleanup_wake)
  /\ WF_vars(cleanup_pass)
  /\ \A targetUrl \in TargetUrls :
       /\ WF_vars(checkTargetHealth(targetUrl))
       /\ WF_vars(\E result \in ProbeResults : performCheck(targetUrl, result))
  /\ WF_vars(Setup_Stop)
  /\ WF_vars(Setup_Shutdown)

(***************************************************************************)
(* The specifications: the breaker of one service under concurrent calls,  *)
(* and the load balancer of one service.                                   *)
(***************************************************************************)
\* a breaker of any configuration, beside a load balancer nobody calls
InitCB ==
  /\ CBInit
  /\ LBInit
  /\ strategy = RoundRobin
  /\ SDInit
  /\ GWInit
  /\ RLInit
  /\ rl = [limit |-> 1, burst |-> 2, cleanupInterval |-> 3]
  /\ LCInit
  /\ k8s = [enabled |-> TRUE, serviceDiscovery |-> TRUE]

\* a load balancer of any strategy, beside a breaker nobody calls
InitLB ==
  /\ LBInit
  /\ CBInit
  /\ cfg.readyToTrip = DrmReadyToTrip
  /\ SDInit
  /\ GWInit
  /\ RLInit
  /\ rl = [limit |-> 1, burst |-> 2, cleanupInterval |-> 3]
  /\ LCInit
  /\ k8s = [enabled |-> TRUE, serviceDiscovery |-> TRUE]

\* service discovery from an empty cluster, beside a breaker and a load
\* balancer nobody calls
InitSD ==
  /\ SDInit
  /\ CBInit
  /\ cfg.readyToTrip = DrmReadyToTrip
  /\ LBInit
  /\ strategy = RoundRobin
  /\ GWInit
  /\ RLInit
  /\ rl = [limit |-> 1, burst |-> 2, cleanupInterval |-> 3]
  /\ LCInit
  /\ k8s = [enabled |-> TRUE, serviceDiscovery |-> TRUE]

\* The gateway when the events of the service "orders" have been handled (or
\* none has arrived): the breaker and the round-robin load balancer the
\* dynamic route manager builds.
InitGW ==
  /\ CCInit
  /\ atProxy = 0
  /\ inProxy = <<>>
  /\ totalRequests = 0
  /\ response = NoResponse
  /\ eventTypes = <<>>
  /\ CBInit
  /\ cfg.readyToTrip = DrmReadyToTrip
  /\ LBInit
  /\ strategy = RoundRobin
  /\ dynamicRoutes \in RouteTables
  /\ authorization \in
       (IF \E k \in DOMAIN dynamicRoutes : dynamicRoutes[k].authRequired
        THEN Authorizations ELSE {NoAuthorization})
  /\ routes = [k \in DOMAIN dynamicRoutes |->
                 updateRoutes(<<>>, [type |-> ServiceAdded,
                                     service |-> dynamicRoutes[k].service,
                                     object |-> dynamicRoutes[k].service])[k]]
  /\ services = [n \in {dynamicRoutes[k].serviceName : k \in DOMAIN dynamicRoutes}
                   |-> dynamicRoutes["GET:/orders"].service]
  /\ objects = [n \in DOMAIN services |->
                  [enabled |-> "true", path |-> Absent,
                   authRequired |-> IF services[n].authRequired THEN "true"
                                    ELSE Absent]]
  /\ latest = [k \in DOMAIN dynamicRoutes |-> dynamicRoutes[k].service]
  /\ eventCh = <<>>
  /\ consumer = "running"
  /\ notified = 0
  /\ processed = NoEvent
  /\ dropped = NoEvent
  /\ sdEndpoints = <<>>
  /\ eventProcessors = {DynamicRoutes}
  /\ totalRoutes = Cardinality(DOMAIN dynamicRoutes)
  /\ RLInit
  /\ rl = [limit |-> 1, burst |-> 2, cleanupInterval |-> 3]
  /\ LCInit
  /\ k8s = [enabled |-> TRUE, serviceDiscovery |-> TRUE]

\* The gateway before the first event of the service "orders" is handled.
InitEV ==
  /\ GWInit
  /\ SDInit
  /\ CBInit
  /\ cfg.readyToTrip = DrmReadyToTrip
  /\ LBInit
  /\ strategy = RoundRobin
  /\ RLInit
  /\ rl = [limit |-> 1, burst |-> 2, cleanupInterval |-> 3]
  /\ LCInit
  /\ k8s = [enabled |-> TRUE, serviceDiscovery |-> TRUE]

\* service discovery with a full event channel, beside a breaker and a load
\* balancer nobody calls
InitOV ==
  /\ OVInit
  /\ CBInit
  /\ cfg.readyToTrip = DrmReadyToTrip
  /\ LBInit
  /\ strategy = RoundRobin
  /\ GWInit
  /\ RLInit
  /\ rl = [limit |-> 1, burst |-> 2, cleanupInterval |-> 3]
  /\ LCInit
  /\ k8s = [enabled |-> TRUE, serviceDiscovery |-> TRUE]

\* the rate limiter of any configuration, beside a gateway without traffic
InitRL ==
  /\ RLInit
  /\ CBInit
  /\ cfg.readyToTrip = DrmReadyToTrip
  /\ LBInit
  /\ strategy = RoundRobin
  /\ SDInit
  /\ GWInit
  /\ LCInit
  /\ k8s = [enabled |-> TRUE, serviceDiscovery |-> TRUE]

\* the gateway in service, of any configuration, without traffic on its
\* dynamic routes
InitLC ==
  /\ LCInit
  /\ CBInit
  /\ cfg.readyToTrip = DrmReadyToTrip
  /\ LBInit
  /\ strategy = RoundRobin
  /\ SDInit
  /\ GWInit
  /\ RLInit
  /\ rl = [limit |-> 1, burst |-> 2, cleanupInterval |-> 3]

SpecCB == InitCB /\ [][CBNext]_vars

\* every caller of Execute goes on: it takes the mutex when it is free, leaves
\* its critical section, and its fn returns; and callers keep calling
CBFairness ==
  \A p \in Procs :
    /\ WF_vars(BeforeLock(p))
    /\ WF_vars(BeforeDecide(p))
    /\ WF_vars(AfterLock(p))
    /\ WF_vars(AfterDecide(p))

SpecCBFair == InitCB /\ [][CBNext]_vars /\ CBFairness

SpecLB == InitLB /\ [][LBNext]_vars

SpecSD == InitSD /\ [][SDNext]_vars

SpecGW == InitGW /\ [][GWNext]_vars

SpecEV == InitEV /\ [][EVNext]_vars

SpecEO == InitSD /\ [][EONext]_vars

SpecOV == InitOV /\ [][OVNext]_vars /\ OVFairness

SpecRL == InitRL /\ [][RLNext]_vars

SpecLC == InitLC /\ [][LCNext]_vars /\ LCFairness

(***************************************************************************)
(* Steps of Execute, as the claims name them.                              *)
(***************************************************************************)
\* p's beforeRequest takes the mutex and calls currentState
EntersBefore(p) == pc[p] = "idle" /\ pc'[p] = "before"
\* p's beforeRequest returns
LeavesBefore(p) == pc[p] = "before" /\ pc'[p] # "before"
\* p's afterRequest takes the mutex and calls currentState
EntersAfter(p) == pc[p] = "running" /\ pc'[p] = "after"
\* p's afterRequest returns
LeavesAfter(p) == pc[p] = "after" /\ pc'[p] = "idle"
\* the step calls currentState
CallsCurrentState == last'.op \in {"beforeLock", "afterLock", "State"}
\* the counts after one more failure
WithFailure(counts) ==
  [counts EXCEPT !.totalFailures = @ + 1, !.consecutiveFailures = @ + 1,
                 !.consecutiveSuccesses = 0]

\* C1: a call whose afterRequest observes another generation than the one its
\* beforeRequest returned is discarded: its afterRequest changes the counts only
\* by the reset of a generation change, and after the generation test it leaves
\* state, generation, counts and expiry as they are.
C1_GenerationSafety ==
  [][\A p \in Procs :
       /\ EntersAfter(p) =>
            /\ cb'.counts \in {cb.counts, ZeroCounts}
            /\ (cb'.generation # cb.generation => cb'.counts = ZeroCounts)
       /\ (LeavesAfter(p) /\ obsGeneration # before[p]) => cb' = cb]_vars

\* C1 witness: a call admitted in a closed generation returns when the breaker
\* has since opened and become half-open, and is discarded.
C1_Witness ==
  /\ last.op = "discarded"
  /\ cb.state = StateHalfOpen
  /\ cb.counts = ZeroCounts

\* C2: a request admitted while the breaker is half-open that completes as a
\* failure in the same generation leaves the breaker open.
C2_HalfOpenFailureOpens ==
  [][\A p \in Procs :
       (LeavesAfter(p) /\ ~success /\ obsState = StateHalfOpen
          /\ obsGeneration = before[p])
       => cb'.state = StateOpen]_vars

\* C3: a failure accounted while the breaker is closed opens it exactly when
\* readyToTrip holds of the counts updated with that failure; otherwise the
\* breaker stays closed, in the same generation, with the updated counts.
C3_ClosedFailureTrips ==
  [][\A p \in Procs :
       (LeavesAfter(p) /\ ~success /\ obsState = StateClosed
          /\ obsGeneration = before[p])
       => IF ReadyToTrip(WithFailure(cb.counts))
          THEN cb'.state = StateOpen
          ELSE /\ cb'.state = StateClosed
               /\ cb'.generation = cb.generation
               /\ cb'.counts = WithFailure(cb.counts)]_vars

\* C3 witness: under the dynamic route manager's rule a failure in the closed
\* state has opened the breaker.
C3_Witness ==
  /\ last.op = "onFailure"
  /\ last.state = StateClosed
  /\ cb.state = StateOpen
  /\ cfg.readyToTrip = DrmReadyToTrip

\* C4: while the breaker is open and its expiry is not before the clock, a call
\* of Execute leaves the breaker as it is, returns ErrOpenState and does not
\* run fn.
C4_OpenRejects ==
  [][\A p \in Procs :
       /\ (EntersBefore(p) /\ cb.state = StateOpen /\ ~(cb.expiry < now))
            => (cb' = cb /\ obsState' = StateOpen)
       /\ (LeavesBefore(p) /\ obsState = StateOpen)
            => (pc'[p] = "idle" /\ last'.err = ErrOpenState /\ cb' = cb)]_vars

\* C4 witness: a call has been rejected by the open breaker.
C4_Witness ==
  /\ last.op = "beforeRequest"
  /\ last.err = ErrOpenState
  /\ cb.state = StateOpen
  /\ cb.expiry >= now

\* C5: a breaker that opens expires `timeout` later; it leaves the open state
\* only once its expiry is before the clock, and then to half-open; a call of
\* Execute that finds it open and expired makes it half-open in a new
\* generation with zero counts, and a call that finds it half-open with no
\* request counted is admitted.
C5_OpenToHalfOpen ==
  [][/\ (cb.state # StateOpen /\ cb'.state = StateOpen)
          => cb'.expiry = now + cfg.timeout
     /\ (cb.state = StateOpen /\ cb'.state # StateOpen)
          => (cb.expiry < now /\ cb'.state = StateHalfOpen)
     /\ \A p \in Procs :
          /\ (EntersBefore(p) /\ cb.state = StateOpen /\ cb.expiry < now)
               => /\ cb' = [state |-> StateHalfOpen,
                            generation |-> cb.generation + 1,
                            counts |-> ZeroCounts, expiry |-> 0]
                  /\ obsState' = StateHalfOpen
          /\ (LeavesBefore(p) /\ obsState = StateHalfOpen
                 /\ cb.counts.requests = 0)
               => /\ pc'[p] = "running"
                  /\ last'.err = NoError
                  /\ before'[p] = cb.generation
                  /\ cb'.counts = [ZeroCounts EXCEPT !.requests = 1]]_vars

\* C5 witness: the first call after the timeout runs as the probe of a new
\* half-open generation.
C5_Witness ==
  /\ last.op = "beforeRequest"
  /\ last.err = NoError
  /\ cb.state = StateHalfOpen
  /\ cb.counts = [ZeroCounts EXCEPT !.requests = 1]

\* C6: a request admitted while the breaker is half-open that completes
\* successfully in the same generation closes the breaker, in the next
\* generation, with zero counts.
C6_HalfOpenSuccessCloses ==
  [][\A p \in Procs :
       (LeavesAfter(p) /\ success /\ obsState = StateHalfOpen
          /\ obsGeneration = before[p])
       => /\ cb'.state = StateClosed
          /\ cb'.generation = cb.generation + 1
          /\ cb'.counts = ZeroCounts]_vars

\* C6 witness: a successful probe has closed a breaker that allows more than
\* one probe.
C6_Witness ==
  /\ last.op = "onSuccess"
  /\ last.state = StateHalfOpen
  /\ cb.state = StateClosed
  /\ cfg.maxRequests > 1

\* C7: in one half-open generation at most maxRequests calls are admitted, and
\* a call that finds the quota used returns ErrTooManyRequests without running
\* fn and without changing the breaker.
C7_HalfOpenQuota ==
  [][/\ cb'.state = StateHalfOpen => admits' <= cfg.maxRequests
     /\ \A p \in Procs :
          (LeavesBefore(p) /\ obsState = StateHalfOpen
             /\ admits >= cfg.maxRequests)
          => (pc'[p] = "idle" /\ last'.err = ErrTooManyRequests /\ cb' = cb)]_vars

\* C7 witness: a call is rejected for the quota while a probe of the same
\* generation is still running.
C7_Witness ==
  /\ last.op = "beforeRequest"
  /\ last.err = ErrTooManyRequests
  /\ admits = cfg.maxRequests
  /\ \E p \in Procs : pc[p] = "running" /\ before[p] = cb.generation

\* C8: the generation never decreases; it increases by one with every change
\* of state and with every closed-interval expiry that currentState finds; and
\* every step that changes the generation leaves all five counters zero.
C8_GenerationMonotonic ==
  [][/\ cb'.generation >= cb.generation
     /\ cb'.state # cb.state => cb'.generation = cb.generation + 1
     /\ (CallsCurrentState /\ cb.state = StateClosed /\ cb.expiry # 0
            /\ cb.expiry < now)
          => (cb'.generation = cb.generation + 1 /\ cb'.state = StateClosed)
     /\ cb'.generation # cb.generation
          => (cb'.generation = cb.generation + 1 /\ cb'.counts = ZeroCounts)]_vars

\* C8 witness: the closed interval expired with requests counted, and a call's
\* beforeRequest started the second generation, still closed, from zero.
C8_Witness ==
  /\ last.op = "beforeLock"
  /\ cb.state = StateClosed
  /\ cb.generation = 2
  /\ cb.counts = ZeroCounts
  /\ \E p \in Procs : pc[p] = "running" /\ before[p] = 1

(***************************************************************************)
(* The load balancer's claims.                                             *)
(***************************************************************************)
\* the ready endpoints of the balancer's list, as a set
ReadyEndpoints == { endpoints[i] : i \in { j \in DOMAIN endpoints : endpoints[j].ready } }

\* C9: under every strategy SelectEndpoint returns the empty endpoint when no
\* endpoint of the list is ready, and otherwise an endpoint of the list whose
\* ready flag is set.
C9_ReadyOrSentinel ==
  selected # NotCalled =>
    IF ReadyEndpoints = {} THEN selected = EmptyEndpoint
    ELSE selected \in ReadyEndpoints

\* C9 witness: weighted round-robin returned a ready endpoint of a list whose
\* first endpoint is not ready.
C9_Witness ==
  /\ strategy = WeightedRoundRobin
  /\ Len(endpoints) = 3
  /\ ~endpoints[1].ready
  /\ selected \in ReadyEndpoints

\* the number of times e occurs in picks[from + 1 .. from + n]
Occurrences(e, from, n) ==
  Cardinality({ i \in (from + 1)..(from + n) : picks[i] = e })

\* C10: while a round-robin balancer's list, with N ready endpoints, stays the
\* same, each selection returns the ready endpoint after the one returned
\* before it, in slice order and cyclically, and any K*N consecutive
\* selections return each ready endpoint exactly K times.
C10_RoundRobinFair ==
  LET healthy == SelectSeq(endpoints, LAMBDA e : e.ready)
      N == Len(healthy)
  IN (strategy = RoundRobin /\ N > 0) =>
       /\ \A i \in 1..(Len(picks) - 1) :
            \E j \in 1..N : picks[i] = healthy[j] /\ picks[i + 1] = healthy[(j % N) + 1]
       /\ \A from \in 0..Len(picks) : \A K \in 0..Len(picks) :
            from + K * N <= Len(picks) =>
              \A j \in 1..N : Occurrences(healthy[j], from, K * N) = K

\* C10 witness: a counter that is not a multiple of three when the list is
\* set, then three selections over three ready endpoints: the second, the
\* third and the first.
C10_Witness ==
  LET healthy == SelectSeq(endpoints, LAMBDA e : e.ready)
  IN /\ strategy = RoundRobin
     /\ Len(healthy) = 3
     /\ picks = <<healthy[2], healthy[3], healthy[1]>>

(***************************************************************************)
(* Claims about service discovery and the route tables.                    *)
(***************************************************************************)
\* the entries of a route table that name the service
RoutesOf(table, name) ==
  {k \in DOMAIN table : table[k].serviceName = name \/ table[k].service.name = name}

\* C11: a service whose object does not say enabled=true has no entry in the
\* discovered-service map and, once the consumer has handled every event, no
\* entry in either route table, whether the object never carried the marker or
\* was updated to drop or change it.
C11_DiscoveryGating ==
  \A name \in DOMAIN objects :
    ~shouldDiscoverService(objects[name]) =>
      /\ name \notin DOMAIN services
      /\ eventCh = <<>> =>
           RoutesOf(routes, name) = {} /\ RoutesOf(dynamicRoutes, name) = {}

\* C12: when the consumer has handled the deleted event of a service, neither
\* route table has an entry for the service's method and path, and the
\* consumer is still running.
C12_DeletedRemovesRoute ==
  [][(eventCh # <<>> /\ Len(eventCh') < Len(eventCh)
        /\ Head(eventCh).type = ServiceDeleted)
     => /\ routeKey(Head(eventCh).object) \notin DOMAIN routes'
        /\ routeKey(Head(eventCh).object) \notin DOMAIN dynamicRoutes'
        /\ consumer' = "running"]_vars

\* C20: each route table has at most one entry per method and path, and that
\* entry is the one built from the last added or modified event the consumer
\* has handled for the key.
C20_RouteUniqueness ==
  /\ \A k \in DOMAIN routes :
       /\ k \in DOMAIN latest
       /\ routes[k] = updateRoutes(<<>>, [type |-> ServiceAdded,
                                          service |-> latest[k],
                                          object |-> latest[k]])[k]
  /\ \A k \in DOMAIN dynamicRoutes :
       /\ k \in DOMAIN latest
       /\ dynamicRoutes[k] = addRoute(<<>>, latest[k])[k]

(***************************************************************************)
(* Claims about the request handler.                                       *)
(***************************************************************************)
\* the header is "Bearer <token>" with a token the verifier accepts
ValidBearer(authHeader) ==
  /\ Len(authHeader) = 2
  /\ authHeader[1] = "Bearer"
  /\ VerifyToken(authHeader[2])

\* C13: a request whose method and path match no entry of the dynamic route
\* table is answered 404.
C13_NoRouteIs404 ==
  response.op = "no route" => response.status = StatusNotFound

\* C14: on a route with authRequired, a request reaches the backend only if
\* it carries "Authorization: Bearer <token>" with a token the verifier
\* accepts, and a request refused for its header is answered 401 without
\* being forwarded.
C14_AuthBeforeForward ==
  findMatchingRoute("GET", "/orders").authRequired =>
    /\ (inProxy # <<>> \/ response.forwarded) => ValidBearer(authorization)
    /\ response.op = "unauthorized" =>
         response.status = StatusUnauthorized /\ ~response.forwarded

\* C15: a proxy call that ends with a transport error is accounted as one
\* failure in the breaker's generation: the failure is added to the counts, or
\* it trips the breaker.
C15_TransportErrorCounts ==
  [][\A generation \in DOMAIN inProxy :
       (/\ inProxy' = BagRemove(inProxy, generation)
        /\ isNetworkError(response'.outcome)
        /\ generation = cb.generation)
       => \/ cb'.counts = WithFailure(cb.counts)
          \/ cb'.state = StateOpen]_vars

\* C16: when the proxy call of a matched route ends with a transport error,
\* the client receives 502.
C16_TransportErrorIs502 ==
  (response.op = "proxied" /\ isNetworkError(response.outcome))
  => response.status = StatusBadGateway

\* C17: when the breaker rejects the request at the selection or at the proxy
\* call, or no endpoint is ready, the client receives 503 and no backend is
\* contacted.
C17_RejectedIs503 ==
  response.op \in {"selection rejected", "no endpoint", "proxy rejected"}
  => response.status = StatusServiceUnavailable /\ ~response.forwarded

\* the hits of the requests from ip, in the order of their arrival
HitsOf(ip) == SelectSeq(hits, LAMBDA h : h.ip = ip)

\* the time of the last request from ip
LastHitTime(ip) == HitsOf(ip)[Len(HitsOf(ip))].time

\* the tokens (in tenths) a request from ip finds in that IP's bucket
TokensFound(ip) ==
  IF ip \in DOMAIN clients THEN TokensAt(clients[ip].limiter, rlNow)
  ELSE rl.burst * TicksPerSecond

\* With limit 1/s and burst 2: the first three requests of an IP, when they
\* come within 100 ms, are admitted, admitted and answered 429; a fourth one
\* 1.1 s later is admitted.
BurstScenario ==
  rl.limit = 1 /\ rl.burst = 2 =>
    \A ip \in ClientIPs :
      LET mine == HitsOf(ip)
      IN /\ Len(mine) >= 3 /\ mine[3].time - mine[1].time <= 1
            => /\ mine[1].next /\ mine[2].next
               /\ ~mine[3].next /\ mine[3].status = StatusTooManyRequests
         /\ Len(mine) >= 4 /\ mine[3].time - mine[1].time <= 1
               /\ mine[4].time - mine[3].time >= 11
            => mine[4].next

\* C18: a request is admitted (next is called) exactly when its IP's bucket,
\* of capacity burst and refilled at the configured rate, holds a token, and
\* admitting it takes exactly one token from that bucket and touches no other
\* bucket; a request that finds no token is answered 429, next is not called
\* and the bucket keeps what it had.  With limit 1/s and burst 2, three
\* requests of one IP within 100 ms are admitted, admitted and answered 429,
\* and a request 1.1 s later is admitted.
C18_TokenPerRequest ==
  [][ /\ Len(hits') = Len(hits) + 1 =>
           LET h == hits'[Len(hits')]
               found == TokensFound(h.ip)
           IN /\ found <= rl.burst * TicksPerSecond
              /\ h.next <=> found >= TicksPerSecond
              /\ h.next => clients'[h.ip].limiter.tokens = found - TicksPerSecond
              /\ ~h.next => /\ h.status = StatusTooManyRequests
                            /\ TokensAt(clients'[h.ip].limiter, rlNow) = found
              /\ \A other \in DOMAIN clients \ {h.ip} :
                   other \in DOMAIN clients' /\ clients'[other] = clients[other]
      /\ BurstScenario' ]_vars

\* the scenario has happened on one bucket: two admitted, one answered 429,
\* and the fourth admitted on the refill of 1.1 s
C18_Witness ==
  /\ rl.limit = 1 /\ rl.burst = 2
  /\ \E ip \in ClientIPs :
       LET mine == HitsOf(ip)
       IN /\ Len(mine) = 4
          /\ mine[3].time - mine[1].time <= 1
          /\ mine[4].time - mine[3].time = 11
          /\ mine[1].next /\ mine[2].next /\ ~mine[3].next /\ mine[4].next
          /\ mine[3].status = StatusTooManyRequests
          /\ ip \in DOMAIN clients
          /\ clients[ip].limiter.tokens < TicksPerSecond
          /\ rl.cleanupInterval > rlNow

Expired ==
  \/ cb.state = StateClosed /\ cb.expiry # 0 /\ cb.expiry < now
  \/ cb.state = StateOpen /\ cb.expiry < now

\* C25: whenever onStateChange is called, the mutex of the breaker is not
\* held by the call that makes the transition.
C25_CallbackOutsideLock ==
  probe.changed => probe.holder = 0

\* C26: State() and Counts() leave the breaker's state, generation and counts
\* as they were.
C26_ReadsChangeNothing ==
  [][last'.op \in {"State", "Counts"} => cb' = cb]_vars

\* C27: a Counts() called after the interval or the timeout has elapsed
\* returns nothing that was counted before, and a State() called right after
\* a Counts() reports the state of the generation the counts were of.
C27_CountsOfCurrentGeneration ==
  [][ /\ last'.op = "Counts" /\ Expired' => probe'.counts = ZeroCounts
      /\ last.op = "Counts" /\ last'.op = "State"
           => probe.generation = cb'.generation ]_vars

(***************************************************************************)
(* Weighted round-robin.                                                   *)
(***************************************************************************)
\* the weight the configuration gives an endpoint under its key "ip:port"
ConfiguredWeight(e) ==
  IF AddressKey(e) \in DOMAIN weights THEN weights[AddressKey(e)] ELSE 1

RECURSIVE SumConfigured(_)
SumConfigured(eps) ==
  IF eps = <<>> THEN 0 ELSE ConfiguredWeight(Head(eps)) + SumConfigured(Tail(eps))

\* the weights map is keyed by "ip:port" and its weights are positive
KeyedByAddress ==
  /\ weights # <<>>
  /\ \A k \in DOMAIN weights :
       weights[k] > 0 /\ \E a \in Addresses : k = AddressKey(a)

\* C24: with a weights map keyed by "ip:port" and a list of ready endpoints
\* that stays the same, a weighted round-robin selection advances the counter
\* by one, and any totalWeight consecutive selections return each endpoint as
\* many times as its weight.
C24_WeightedShares ==
  [][ strategy = WeightedRoundRobin /\ KeyedByAddress =>
        /\ Len(picks') = Len(picks) + 1 => current' = current + 1
        /\ LET healthy == SelectSeq(endpoints', LAMBDA e : e.ready)
               totalWeight == SumConfigured(healthy)
           IN \A from \in 0..Len(picks') :
                from + totalWeight <= Len(picks') =>
                  \A j \in 1..Len(healthy) :
                    Cardinality({ i \in (from + 1)..(from + totalWeight) :
                                    picks'[i] = healthy[j] })
                      = ConfiguredWeight(healthy[j]) ]_vars

(***************************************************************************)
(* Claims about shutdown and about the static routes.                      *)
(***************************************************************************)
\* every background goroutine that was started has returned
AllExited == \A t \in Tasks : task[t] \in {"not started", "returned"}

\* C22: once Setup has handled the shutdown signal (it has stopped discovery
\* and shut the server down), every background goroutine, the event
\* consumer, the rate limiter's cleanup and each health probe, eventually
\* returns.
C22_TasksExit ==
  (setup = "returned") ~> AllExited

\* the last completed probe of the target succeeded
ProbeSucceeded(targetUrl) ==
  /\ lastProbe[targetUrl] # NoProbeYet
  /\ ~lastProbe[targetUrl].err
  /\ lastProbe[targetUrl].status >= 200
  /\ lastProbe[targetUrl].status < 400

\* the static route of a path
RouteOf(path) == CHOOSE route \in StaticRoutes : route.path = path

\* C23: a request for a static route contacts the route's target only if the
\* last completed probe of that target succeeded; a request that reaches the
\* proxy handler when it did not, or when no probe has completed, is
\* answered 503 and the target is not contacted.
C23_ProxiedOnlyIfHealthy ==
  served.op # "none" =>
    LET route == RouteOf(served.route)
    IN /\ served.contacted => ProbeSucceeded(route.targetUrl)
       /\ served.op # "unauthorized" /\ ~ProbeSucceeded(route.targetUrl)
            => served.status = StatusServiceUnavailable /\ ~served.contacted

\* a request was proxied to a target whose last probe returned 399, while the
\* other target has no completed probe
C23_Witness ==
  /\ served.op = "proxied" /\ served.contacted
  /\ lastProbe[RouteOf(served.route).targetUrl].status = 399
  /\ \E targetUrl \in TargetUrls : lastProbe[targetUrl] = NoProbeYet

(***************************************************************************)
(* Events beside requests (SpecEV).                                        *)
(***************************************************************************)
\* a step of the event consumer: ProcessServiceEvent handles some event
EventStep == \E event \in DrmEvents : DrmProcessServiceEvent(event)

\* the request statistics of the load balancer
RequestStats(st) ==
  [totalRequests |-> st.totalRequests, endpointRequests |-> st.endpointRequests,
   lastSelected |-> st.lastSelected, lastSelectedTime |-> st.lastSelectedTime]

\* the service was deleted and added again
ReAdded == eventTypes = <<ServiceDeleted, ServiceAdded>>

RejectedArrival ==
  /\ totalRequests' = totalRequests + 1
  /\ findMatchingRoute("GET", "/orders").authRequired
  /\ ~checkAuthentication(authorization).ok

\* C28: a request for an authRequired route that authentication rejects is
\* answered 401 whatever the endpoints' health and the breaker's state, and
\* changes neither the selection counter and request statistics of the load
\* balancer nor the counts of the breaker.
C28_AuthBeforeSelection ==
  [][ RejectedArrival =>
        /\ response' = Answer("unauthorized", StatusUnauthorized, TRUE)
        /\ current' = current
        /\ RequestStats(stats') = RequestStats(stats)
        /\ cb'.counts = cb.counts ]_vars

(***************************************************************************)
(* The order of the events (SpecEO).                                       *)
(***************************************************************************)
\* the consumer takes an event from the channel
ReceiveStep == Len(eventCh') < Len(eventCh)

\* the consumer hands the event it received to the processors
DeliverStep == consumer = "delivering" /\ consumer' # "delivering"

\* the entry of table for the route of event, if any
EntryOf(table, event) ==
  IF routeKey(event.service) \in DOMAIN table
  THEN table[routeKey(event.service)].service ELSE NilService

\* what an entry holds once event is applied
AppliedEntry(event) ==
  IF event.type = ServiceDeleted THEN NilService ELSE event.service

\* C29: the consumer applies the events to DiscoveryManager.routes and
\* delivers them to the processors in the order the event source enqueued
\* them: the event it takes is later than the one it took before and earlier
\* than every event still waiting; it takes no event while it is handling
\* one; and when it delivers an event to the processors, routes already holds
\* that event's update, and the processor's table holds it after.
C29_EventOrder ==
  [][ /\ ReceiveStep =>
           /\ consumer = "running"
           /\ processed'.timestamp > processed.timestamp
           /\ \A i \in 1..Len(eventCh') :
                processed'.timestamp < eventCh'[i].timestamp
           /\ processed'.service # NilService =>
                EntryOf(routes', processed') = AppliedEntry(processed')
      /\ DeliverStep =>
           /\ processed' = processed
           /\ EntryOf(routes, processed) = AppliedEntry(processed)
           /\ EntryOf(dynamicRoutes', processed) = AppliedEntry(processed)
    ]_vars

\* an event has been delivered while later events of the same service wait,
\* and both tables hold the delivered event
C29_Witness ==
  /\ consumer = "running"
  /\ processed.service # NilService
  /\ Len(eventCh) >= 2
  /\ \A i \in 1..Len(eventCh) : eventCh[i].object.name = processed.service.name
  /\ EntryOf(routes, processed) = processed.service
  /\ EntryOf(dynamicRoutes, processed) = processed.service

(***************************************************************************)
(* The full event channel (SpecOV).                                        *)
(***************************************************************************)
\* DiscoveryManager.routes agrees with the discovered-service map about the
\* service: its one route is that of the service in the map, or it has none
\* when the map has no such service
Agrees(name) ==
  IF name \in DOMAIN services
  THEN /\ RoutesOf(routes, name) = {routeKey(services[name])}
       /\ routes[routeKey(services[name])].service = services[name]
  ELSE RoutesOf(routes, name) = {}

\* C30: when the channel holds EventChCap events the event source drops the
\* new event and goes on; and whenever an event of a service has been
\* dropped, the route table eventually agrees again with the
\* discovered-service map about the service (unless the consumer has ended
\* on a deleted event that was not dropped).
C30_DroppedEventsHeal ==
  \A name \in ServiceNames :
    (dropped.object.name = name) ~> (Agrees(name) \/ consumer = "panicked")

(***************************************************************************)
(* The edges of the breaker's state machine (SpecCB).                      *)
(***************************************************************************)
\* the changes of state the state machine has
Edges ==
  { <<StateClosed, StateOpen>>, <<StateOpen, StateHalfOpen>>,
    <<StateHalfOpen, StateClosed>>, <<StateHalfOpen, StateOpen>> }

\* afterRequest accounts the completion of a call
Accounted == last'.op \in {"onSuccess", "onFailure"}

\* C33: the state of a breaker changes only from closed to open, from open to
\* half-open, from half-open to closed and from half-open to open, never from
\* closed to half-open or from open to closed; and no completion of a call is
\* accounted while the breaker is open.
C33_OnlyEdges ==
  [][ /\ cb'.state # cb.state => <<cb.state, cb'.state>> \in Edges
      /\ Accounted => cb.state # StateOpen /\ last'.state # StateOpen ]_vars

\* a failure accounted in the half-open state has opened the breaker again
C33_Witness ==
  /\ last.op = "onFailure"
  /\ last.state = StateHalfOpen
  /\ cb.state = StateOpen
  /\ probe.changed

(***************************************************************************)
(* The counts of a generation (SpecCB).                                    *)
(***************************************************************************)
\* C35: in every state of the breaker, whatever the interleaving of the
\* concurrent calls of Execute, the completions counted do not exceed the
\* requests counted, a run of successes or failures does not exceed its
\* total, and at most one of the two runs is non-zero.
C35_CountsConsistent ==
  LET c == cb.counts IN
  /\ c.totalSuccesses + c.totalFailures <= c.requests
  /\ c.consecutiveSuccesses <= c.totalSuccesses
  /\ c.consecutiveFailures <= c.totalFailures
  /\ c.consecutiveSuccesses = 0 \/ c.consecutiveFailures = 0

\* a generation has counted a success and then a failure while another call
\* it admitted is still running
C35_Witness ==
  LET c == cb.counts IN
  /\ c.totalSuccesses > 0
  /\ c.consecutiveFailures > 0
  /\ c.consecutiveSuccesses = 0
  /\ c.requests > c.totalSuccesses + c.totalFailures
  /\ \E p \in Procs : pc[p] = "running" /\ before[p] = cb.generation

(***************************************************************************)
(* Recovery of the breaker (SpecCBFair).                                   *)
(***************************************************************************)
\* every call has returned and, if the breaker is open, its timeout has
\* passed (a closed generation that has reached the bound of the model is
\* left out)
Rested ==
  /\ mutex = 0
  /\ \A p \in Procs : pc[p] = "idle"
  /\ cb.state = StateOpen => cb.expiry < now
  /\ cb.state = StateClosed => cb.counts.requests < MaxCount

\* beforeRequest has just admitted a call, whose fn runs
Admitted == last.op = "beforeRequest" /\ last.err = NoError

\* C34: a breaker never rejects for ever: once all the calls in flight have
\* returned and enough time has passed, a later call of Execute is admitted
\* and runs fn.
C34_NeverStuck == Rested ~> Admitted

(***************************************************************************)
(* The consumer after Stop (SpecLC).                                       *)
(***************************************************************************)
\* the consumer receives an event from the channel
ConsumerReceives ==
  task[ConsumerTask] = "select" /\ task'[ConsumerTask] = "busy"

\* the consumer's handleServiceEvent applies the event it received to the
\* route table and hands it to the processors
ConsumerHandles ==
  task[ConsumerTask] = "busy" /\ task'[ConsumerTask] = "select"

\* C31: after DiscoveryManager.Stop has returned no event is applied to the
\* route table or handed to a processor, whether events still wait in the
\* channel or the consumer was handling one.
C31_NoDispatchAfterStop ==
  [][ dmStopCh = "closed" => ~ConsumerReceives /\ ~ConsumerHandles ]_vars


(***************************************************************************)
(* C39: in the DynamicRouteManager, after any sequence of added, modified  *)
(* and deleted events, repeated added events for a key that already exists *)
(* among them, the TotalRoutes statistic equals the number of entries of   *)
(* the dynamic route table.                                                *)
(***************************************************************************)
C39_TotalRoutesCountsEntries ==
  totalRoutes = Cardinality(DOMAIN dynamicRoutes)

(***************************************************************************)
(* Endpoints objects and the registration of the event processor (SpecEP). *)
(* Setup calls discoveryManager.Start(), which starts the informers and    *)
(* the goroutine of processEvents, and only then NewDynamicRouteManager,   *)
(* which registers the dynamic route manager as an event processor.  The   *)
(* cluster holds one service, "orders", whose path annotation may change,  *)
(* and its Endpoints object.                                               *)
(***************************************************************************)
\* the Endpoints objects of a service, of one subset each
EndpointsObjects ==
  { [addresses |-> <<"10.0.0.1">>, notReadyAddresses |-> <<>>, ports |-> <<>>],
    [addresses |-> <<"10.0.0.2">>, notReadyAddresses |-> <<"10.0.0.1">>,
     ports |-> <<8080>>],
    [addresses |-> <<>>, notReadyAddresses |-> <<"10.0.0.1">>,
     ports |-> <<80>>] }

\* the annotations of a service that names the path /shared
SharedAnnotations ==
  [enabled |-> "true", path |-> "/shared", authRequired |-> Absent]

\* handleEndpointEvent writes service.Endpoints through the pointer in
\* sd.services: a queued event or a route that holds this pointer holds the
\* new list too
Shared(service, name, eps) ==
  IF name \in DOMAIN services /\ service = services[name]
  THEN [service EXCEPT !.endpoints = convertEndpoints(eps)]
  ELSE service

\* ServiceDiscovery.handleEndpointEvent(endpoints), the AddFunc, UpdateFunc and
\* DeleteFunc of the Endpoints informer
handleEndpointEvent(name, eps) ==
  /\ consumer # "panicked"
  /\ notified < MaxNotifications
  /\ sdEndpoints' = MapPut(sdEndpoints, name, eps)
  /\ services' = [n \in DOMAIN services |-> Shared(services[n], name, eps)]
  /\ eventCh' = [i \in 1..Len(eventCh) |->
                   [eventCh[i] EXCEPT
                      !.service = Shared(eventCh[i].service, name, eps)]]
  /\ routes' = [k \in DOMAIN routes |->
                  [routes[k] EXCEPT
                     !.service = Shared(routes[k].service, name, eps)]]
  /\ dynamicRoutes' =
       [k \in DOMAIN dynamicRoutes |->
          [dynamicRoutes[k] EXCEPT
             !.service = Shared(dynamicRoutes[k].service, name, eps)]]
  /\ notified' = notified + 1
  /\ UNCHANGED <<objects, consumer, latest, processed, dropped, eventProcessors,
                 totalRoutes>>
  /\ UNCHANGED outsideSD

\* DiscoveryManager.AddEventProcessor(processor), called by
\* NewDynamicRouteManager
AddEventProcessor ==
  /\ DynamicRoutes \notin eventProcessors
  /\ eventProcessors' = eventProcessors \cup {DynamicRoutes}
  /\ UNCHANGED <<objects, services, eventCh, routes, dynamicRoutes, consumer,
                 notified, latest, processed, dropped, sdEndpoints, totalRoutes>>
  /\ UNCHANGED outsideSD

\* DiscoveryManager.GetServiceEndpoints(serviceName): the lists it can return.
\* It returns the ready endpoints of the first route of the service that the
\* iteration over the map dm.routes meets, and the order of that iteration is
\* not fixed.
GetServiceEndpoints(rts, serviceName) ==
  LET owned == {k \in DOMAIN rts : rts[k].serviceName = serviceName} IN
  IF owned = {} THEN {<<>>}
  ELSE {getHealthyEndpoints(rts[k].endpoints) : k \in owned}

\* after discoveryManager.Start() and before NewDynamicRouteManager
EPInit ==
  /\ objects = <<>>
  /\ services = <<>>
  /\ eventCh = <<>>
  /\ routes = <<>>
  /\ dynamicRoutes = <<>>
  /\ consumer = "running"
  /\ notified = 0
  /\ latest = <<>>
  /\ processed = NoEvent
  /\ dropped = NoEvent
  /\ sdEndpoints = <<>>
  /\ eventProcessors = {}
  /\ totalRoutes = 0

InitEP ==
  /\ EPInit
  /\ CBInit
  /\ cfg.readyToTrip = DrmReadyToTrip
  /\ LBInit
  /\ strategy = RoundRobin
  /\ GWInit
  /\ RLInit
  /\ rl = [limit |-> 1, burst |-> 2, cleanupInterval |-> 3]
  /\ LCInit
  /\ k8s = [enabled |-> TRUE, serviceDiscovery |-> TRUE]

EPNext ==
  \/ \E annotations \in {PlainAnnotations, SharedAnnotations} :
       AddFunc("orders", annotations)
  \/ \E annotations \in {PlainAnnotations, SharedAnnotations} :
       UpdateFunc("orders", annotations)
  \/ DeleteFunc("orders")
  \/ \E eps \in EndpointsObjects : handleEndpointEvent("orders", eps)
  \/ AddEventProcessor
  \/ processEvents

SpecEP == InitEP /\ [][EPNext]_vars

\* handleEndpointEvent has stored an Endpoints object of a discovered service
\* that differs from the one it held
EndpointsChanged(name) ==
  /\ name \in DOMAIN services
  /\ name \in DOMAIN sdEndpoints'
  /\ name \in DOMAIN sdEndpoints => sdEndpoints'[name] # sdEndpoints[name]

\* C32: for a discovered service, every material change the event source
\* observes, a change of only its endpoint set or endpoint readiness among
\* them, results in exactly one ServiceEvent that carries the new endpoint
\* set (so that the route of the service reflects the new endpoints once the
\* event is processed).
C32_EndpointChangeEmitsEvent ==
  [][ \A name \in ServiceNames :
        EndpointsChanged(name) /\ sdEndpoints' # sdEndpoints =>
          /\ Len(eventCh') = Len(eventCh) + 1
          /\ eventCh'[Len(eventCh')].service.endpoints =
               convertEndpoints(sdEndpoints'[name]) ]_vars

\* C37: after the consumer has finished processing any event, the route keys
\* of the DynamicRouteManager are the route keys of the DiscoveryManager,
\* whenever the processor is registered relative to the start of the consumer
\* and the arrival of the first events.
C37_SameRouteKeys ==
  processed # NoEvent /\ consumer = "running" =>
    DOMAIN dynamicRoutes = DOMAIN routes

\* the last event the consumer processed is an added or modified event of the
\* service
LastEventOf(name) ==
  /\ processed.type \in {ServiceAdded, ServiceModified}
  /\ processed.service.name = name

\* C38: after any sequence of service events each service name owns at most
\* one route (the entry under the previous method and path is gone when a
\* modified event changes them), and GetServiceEndpoints(name) returns the
\* ready endpoints of the most recent event of the service.
C38_OneRoutePerService ==
  \A name \in ServiceNames :
    /\ Cardinality({k \in DOMAIN routes : routes[k].serviceName = name}) <= 1
    /\ LastEventOf(name) =>
         GetServiceEndpoints(routes, name) =
           {getHealthyEndpoints(processed.service.endpoints)}

(***************************************************************************)
(* Requests in flight beside an endpoint removal (SpecIF).  The service    *)
(* "orders" has the route GET:/orders and one ready endpoint, 10.0.0.1.    *)
(* The event consumer processes modified events whose endpoint list marks  *)
(* 10.0.0.1 not ready and adds 10.0.0.2.  handleDynamicRoute is taken in   *)
(* three steps, between which other goroutines run: it holds no lock       *)
(* across them.                                                            *)
(***************************************************************************)
\* the endpoint the modified event marks not ready
RemovedEndpoint == [ip |-> "10.0.0.1", port |-> 80, ready |-> TRUE]

\* the modified event that marks RemovedEndpoint not ready
RemovalEvent ==
  CHOOSE event \in DrmEvents :
    /\ event.type = ServiceModified
    /\ event.service.endpoints =
         <<[ip |-> "10.0.0.1", port |-> 80, ready |-> FALSE],
           [ip |-> "10.0.0.2", port |-> 8080, ready |-> TRUE]>>

\* handleDynamicRoute up to the call of selectHealthyEndpointEnhanced:
\* findMatchingRoute, updateRouteStats, the read of route.Service.Endpoints for
\* the call's argument, and GetOrCreateLoadBalancer
handleDynamicRoute_route(h, r) ==
  /\ handlers[h].pc = "idle"
  /\ LET route == findMatchingRoute(r.method, r.path) IN
       IF route = NoRoute
       THEN /\ response' = Answer("no route", StatusOK, FALSE)
            /\ UNCHANGED <<totalRequests, handlers>>
       ELSE /\ totalRequests < MaxRouted
            /\ totalRequests' = totalRequests + 1
            /\ handlers' = [handlers EXCEPT ![h] =
                              [pc |-> "UpdateEndpoints",
                               authRequired |-> route.authRequired,
                               endpoints |-> route.service.endpoints,
                               endpoint |-> NotCalled]]
            /\ UNCHANGED response
  /\ UNCHANGED <<cb, endpoints, current, stats, authorization, atProxy, inProxy,
                 eventTypes, locks, goroutines>>
  /\ UNCHANGED <<cfg, now, mutex, pc, before, obsState, obsGeneration, success,
                 admits, last, probe, strategy, weights, connections, selected,
                 picks, sdVars, rlVars, lcVars>>

\* selectHealthyEndpointEnhanced: lb.UpdateEndpoints(endpoints)
selectHealthyEndpointEnhanced_update(h) ==
  /\ handlers[h].pc = "UpdateEndpoints"
  /\ endpoints' = handlers[h].endpoints
  /\ stats' = updateStats(stats, handlers[h].endpoints)
  /\ handlers' = [handlers EXCEPT ![h].pc = "Execute"]
  /\ UNCHANGED <<cb, current, authorization, atProxy, inProxy, totalRequests,
                 response, eventTypes, locks, goroutines>>
  /\ UNCHANGED <<cfg, now, mutex, pc, before, obsState, obsGeneration, success,
                 admits, last, probe, strategy, weights, connections, selected,
                 picks, sdVars, rlVars, lcVars>>

\* selectHealthyEndpointEnhanced: GetCircuitBreaker and cb.Execute with
\* lb.SelectEndpoint, and handleDynamicRoute after it, up to the call of
\* proxyRequestEnhanced with the endpoint selected
selectHealthyEndpointEnhanced_execute(h) ==
  /\ handlers[h].pc = "Execute"
  /\ LET b1 == currentState(cb, now)
         err == admissionError(b1.state, b1.counts)
         b2 == [b1 EXCEPT !.counts.requests = @ + 1]
         healthy == getHealthyEndpoints(endpoints)
         sel == RoundRobinSelect(healthy, current)
         auth == checkAuthentication(authorization)
     IN IF err # NoError
        THEN /\ cb' = b1
             /\ response' = Answer("selection rejected",
                                   StatusServiceUnavailable, TRUE)
             /\ handlers' = [handlers EXCEPT ![h].pc = "idle"]
             /\ UNCHANGED <<current, stats, atProxy>>
        ELSE IF Len(healthy) = 0
        THEN /\ cb' = afterRequest(b2, b1.generation,
                                   isSuccessful(ErrNoHealthyEndpoints))
             /\ response' = Answer("no endpoint", StatusServiceUnavailable,
                                   TRUE)
             /\ handlers' = [handlers EXCEPT ![h].pc = "idle"]
             /\ UNCHANGED <<current, stats, atProxy>>
        ELSE /\ cb' = afterRequest(b2, b1.generation, isSuccessful(NoError))
             /\ current' = sel.current
             /\ stats' = statsAfterSelection(stats, sel.endpoint)
             /\ IF handlers[h].authRequired /\ ~auth.ok
                THEN /\ response' = Answer("unauthorized", auth.status, TRUE)
                     /\ handlers' = [handlers EXCEPT ![h].pc = "idle"]
                     /\ UNCHANGED atProxy
                ELSE /\ atProxy' = atProxy + 1
                     /\ handlers' = [handlers EXCEPT ![h].pc = "idle",
                                                     ![h].endpoint = sel.endpoint]
                     /\ UNCHANGED response
  /\ UNCHANGED <<endpoints, authorization, inProxy, totalRequests, eventTypes,
                 locks, goroutines>>
  /\ UNCHANGED <<cfg, now, mutex, pc, before, obsState, obsGeneration, success,
                 admits, last, probe, strategy, weights, connections, selected,
                 picks, sdVars, rlVars, lcVars>>

\* the route of "orders" with its first endpoint list is in place; no request
\* has come yet
InitIF ==
  /\ GWInit
  /\ objects = <<>>
  /\ services = <<>>
  /\ eventCh = <<>>
  /\ routes = <<>>
  /\ dynamicRoutes =
       addRoute(<<>>, [RemovalEvent.service EXCEPT
                         !.endpoints = <<RemovedEndpoint>>])
  /\ consumer = "running"
  /\ notified = 0
  /\ latest = <<>>
  /\ processed = NoEvent
  /\ dropped = NoEvent
  /\ sdEndpoints = <<>>
  /\ eventProcessors = {DynamicRoutes}
  /\ totalRoutes = 1
  /\ CBInit
  /\ cfg.readyToTrip = DrmReadyToTrip
  /\ LBInit
  /\ strategy = RoundRobin
  /\ RLInit
  /\ rl = [limit |-> 1, burst |-> 2, cleanupInterval |-> 3]
  /\ LCInit
  /\ k8s = [enabled |-> TRUE, serviceDiscovery |-> TRUE]

IFNext ==
  \/ DrmProcessServiceEvent(RemovalEvent)
  \/ \E h \in Handlers, r \in Requests : handleDynamicRoute_route(h, r)
  \/ \E h \in Handlers : selectHealthyEndpointEnhanced_update(h)
  \/ \E h \in Handlers : selectHealthyEndpointEnhanced_execute(h)
  \/ proxyBeforeRequest
  \/ \E generation \in DOMAIN inProxy, outcome \in ProxyOutcomes :
       proxyServeHTTP(generation, outcome)

SpecIF == InitIF /\ [][IFNext]_vars

\* the request of the handler started after the removal had been processed:
\* the endpoint list it read is that of the modified event
StartedAfterRemoval(h) ==
  handlers[h].endpoints = RemovalEvent.service.endpoints

\* C36: once a modified event that removes an endpoint from a service (or
\* marks it not ready) has been completely processed, no request whose
\* handling starts afterwards is dispatched to that endpoint, even while older
\* requests of the service that read the previous endpoint list are in flight.
C36_NoDispatchToRemoved ==
  \A h \in Handlers :
    StartedAfterRemoval(h) => handlers[h].endpoint # RemovedEndpoint

(***************************************************************************)
(* The mutexes (SpecLK).  A goroutine is in one call at a time; the call   *)
(* is the sequence of lock operations its code does from its first Lock    *)
(* or RLock until it holds no mutex, and where the code branches on data   *)
(* (does the route exist, does the load balancer) every branch is a call   *)
(* of its own.  A sync.RWMutex is held by one writer or by readers.        *)
(* Lock first announces the writer, which keeps new readers                *)
(* out, and returns when the readers have left; RLock blocks while a       *)
(* writer is announced, and Unlock admits the readers that blocked.  A     *)
(* sync.Mutex is the same without readers.                                 *)
(***************************************************************************)
Lock(l) == <<[op |-> "Lock", lock |-> l]>>
Unlock(l) == <<[op |-> "Unlock", lock |-> l]>>
RLock(l) == <<[op |-> "RLock", lock |-> l]>>
RUnlock(l) == <<[op |-> "RUnlock", lock |-> l]>>

\* DynamicRouteManager.findMatchingRoute
findMatchingRouteLocks ==
  RLock("drm.routesMutex") \o RUnlock("drm.routesMutex")

updateRouteStatsNested ==
  Lock("drm.statsMutex") \o Lock("drm.routesMutex") \o
  Unlock("drm.routesMutex") \o Unlock("drm.statsMutex")

\* DynamicRouteManager.updateRouteStats
updateRouteStatsLocks ==
  Lock("drm.routesMutex") \o Unlock("drm.routesMutex") \o
  Lock("drm.statsMutex") \o Unlock("drm.statsMutex")

\* DynamicRouteManager.incrementSuccessStats and incrementErrorStats
incrementStatsLocks == Lock("drm.statsMutex") \o Unlock("drm.statsMutex")

\* LoadBalancerManager.GetOrCreateLoadBalancer
GetOrCreateLoadBalancerLocks == Lock("lbm.mutex") \o Unlock("lbm.mutex")

\* LoadBalancer.UpdateEndpoints and LoadBalancer.SelectEndpoint
UpdateEndpointsLocks == Lock("lb.mutex") \o Unlock("lb.mutex")

\* CircuitBreakerManager.GetCircuitBreaker: the look for the breaker under
\* the read lock and, when there is none, its construction under the write
\* lock
GetCircuitBreakerLocks ==
  { RLock("cbm.mutex") \o RUnlock("cbm.mutex"),
    Lock("cbm.mutex") \o Unlock("cbm.mutex") }

\* CircuitBreaker.beforeRequest, afterRequest, State and Counts
breakerLocks == Lock("cb.mutex") \o Unlock("cb.mutex")

\* DynamicRouteManager.handleDynamicRoute: findMatchingRoute, updateRouteStats,
\* selectHealthyEndpointEnhanced (GetOrCreateLoadBalancer, UpdateEndpoints,
\* GetCircuitBreaker, Execute with SelectEndpoint), proxyRequestEnhanced
\* (GetCircuitBreaker, Execute with the proxy, which takes none of the locks)
\* and incrementSuccessStats or incrementErrorStats.  The handler holds no
\* mutex from one of these to the next.
handleDynamicRouteLocks ==
  { findMatchingRouteLocks, updateRouteStatsLocks, GetOrCreateLoadBalancerLocks,
    UpdateEndpointsLocks, breakerLocks, incrementStatsLocks }
  \cup GetCircuitBreakerLocks

\* LoadBalancerManager.UpdateServiceEndpoints: the load balancer exists or not
UpdateServiceEndpointsLocks ==
  { RLock("lbm.mutex") \o RUnlock("lbm.mutex"),
    RLock("lbm.mutex") \o RUnlock("lbm.mutex") \o UpdateEndpointsLocks }

\* DynamicRouteManager.addRoute
addRouteLocks ==
  { Lock("drm.routesMutex") \o update \o incrementStatsLocks \o
      Unlock("drm.routesMutex") : update \in UpdateServiceEndpointsLocks }

\* DynamicRouteManager.updateRoute: the look for the key, UpdateServiceEndpoints
\* and the update of the route; addRoute instead when the key is new
updateRouteLocks ==
  {Lock("drm.routesMutex") \o Unlock("drm.routesMutex")}
  \cup UpdateServiceEndpointsLocks \cup addRouteLocks

\* DynamicRouteManager.removeRoute: the key is in the table or not
removeRouteLocks ==
  { Lock("drm.routesMutex") \o incrementStatsLocks \o
      Unlock("drm.routesMutex"),
    Lock("drm.routesMutex") \o Unlock("drm.routesMutex") }

\* DiscoveryManager.handleServiceEvent: updateRoutes, then ProcessServiceEvent
\* of the dynamic route manager
handleServiceEventLocks ==
  {Lock("dm.routesMutex") \o Unlock("dm.routesMutex")}
  \cup addRouteLocks \cup updateRouteLocks \cup removeRouteLocks

\* LoadBalancerManager.GetAllStats, with LoadBalancer.GetStats of the one load
\* balancer
GetAllStatsLocks ==
  RLock("lbm.mutex") \o RLock("lb.mutex") \o RUnlock("lb.mutex") \o
  RUnlock("lbm.mutex")

\* CircuitBreakerManager.GetStats, with Counts and State of the one breaker
CircuitBreakerStatsLocks ==
  RLock("cbm.mutex") \o breakerLocks \o breakerLocks \o RUnlock("cbm.mutex")

\* DynamicRouteManager.GetRouteInfo
GetRouteInfoLocks == RLock("drm.routesMutex") \o RUnlock("drm.routesMutex")

\* DynamicRouteManager.GetStats
GetStatsLocks == RLock("drm.statsMutex") \o RUnlock("drm.statsMutex")

\* DiscoveryManager.GetStats, with ServiceDiscovery.GetServices.  The handlers
\* of the informer take sd.mutex while they hold no other mutex, and they
\* always release it.
DiscoveryStatsLocks ==
  RLock("dm.routesMutex") \o RLock("sd.mutex") \o RUnlock("sd.mutex") \o
  RUnlock("dm.routesMutex")

\* the admin endpoints: /admin/load-balancers, /admin/circuit-breakers,
\* /admin/health-overview (GetRouteInfo, GetAllStats and GetStats of the
\* breakers, one after the other) and the snapshots of routes and statistics
adminLocks ==
  { GetAllStatsLocks, CircuitBreakerStatsLocks, GetRouteInfoLocks,
    GetStatsLocks, DiscoveryStatsLocks }

\* the calls of a goroutine
Calls(g) ==
  CASE g = "consumer" -> handleServiceEventLocks
    [] g = "admin" -> adminLocks
    [] OTHER -> handleDynamicRouteLocks

outsideLK == <<cbVars, lbVars, sdVars, gwVars, rlVars, lcVars, handlers>>

\* the next lock operation of the goroutine
NextOp(g) ==
  IF goroutines[g] = <<>> THEN [op |-> "none", lock |-> ""]
  ELSE Head(goroutines[g])

\* the goroutine enters a call
Call(g, call) ==
  /\ goroutines[g] = <<>>
  /\ goroutines' = [goroutines EXCEPT ![g] = call]
  /\ UNCHANGED locks
  /\ UNCHANGED outsideLK

\* the writer is in the queue of the mutex
Queued(g, l) == \E i \in 1..Len(locks[l].queue) : locks[l].queue[i] = g

\* the mutex is free: nobody holds it and no writer waits for it
Free(l) ==
  locks[l].writer = "" /\ locks[l].readers = {} /\ locks[l].queue = <<>>

\* Lock on a free mutex returns at once
Lock_(g) ==
  /\ NextOp(g).op = "Lock"
  /\ Free(NextOp(g).lock)
  /\ locks' = [locks EXCEPT ![NextOp(g).lock].writer = g]
  /\ goroutines' = [goroutines EXCEPT ![g] = Tail(@)]
  /\ UNCHANGED outsideLK

\* Lock on a mutex that is not free announces the writer: it waits its turn
\* behind the writers that came before, and RLock blocks from now on
Lock_announce(g) ==
  /\ NextOp(g).op = "Lock"
  /\ ~Free(NextOp(g).lock)
  /\ ~Queued(g, NextOp(g).lock)
  /\ locks' = [locks EXCEPT ![NextOp(g).lock].queue = Append(@, g)]
  /\ UNCHANGED goroutines
  /\ UNCHANGED outsideLK

\* Lock returns: it is the writer's turn and the readers have left
Lock_return(g) ==
  /\ NextOp(g).op = "Lock"
  /\ LET l == NextOp(g).lock IN
       /\ locks[l].queue # <<>>
       /\ Head(locks[l].queue) = g
       /\ locks[l].writer = ""
       /\ locks[l].readers = {}
       /\ locks' = [locks EXCEPT ![l].writer = g, ![l].queue = Tail(@)]
  /\ goroutines' = [goroutines EXCEPT ![g] = Tail(@)]
  /\ UNCHANGED outsideLK

\* Unlock: the readers that blocked meanwhile hold the mutex now
Unlock_(g) ==
  /\ NextOp(g).op = "Unlock"
  /\ LET l == NextOp(g).lock IN
       /\ locks' = [locks EXCEPT ![l].writer = "", ![l].readers = locks[l].waiting,
                                 ![l].waiting = {}]
       /\ goroutines' = [x \in Goroutines |->
                           IF x = g \/ x \in locks[l].waiting
                           THEN Tail(goroutines[x]) ELSE goroutines[x]]
  /\ UNCHANGED outsideLK

\* RLock: it returns when no writer holds the mutex or waits for it, and
\* blocks otherwise
RLock_(g) ==
  /\ NextOp(g).op = "RLock"
  /\ LET l == NextOp(g).lock IN
       IF locks[l].writer = "" /\ locks[l].queue = <<>>
       THEN /\ locks' = [locks EXCEPT ![l].readers = @ \cup {g}]
            /\ goroutines' = [goroutines EXCEPT ![g] = Tail(@)]
       ELSE /\ g \notin locks[l].waiting
            /\ locks' = [locks EXCEPT ![l].waiting = @ \cup {g}]
            /\ UNCHANGED goroutines
  /\ UNCHANGED outsideLK

RUnlock_(g) ==
  /\ NextOp(g).op = "RUnlock"
  /\ locks' = [locks EXCEPT ![NextOp(g).lock].readers = @ \ {g}]
  /\ goroutines' = [goroutines EXCEPT ![g] = Tail(@)]
  /\ UNCHANGED outsideLK

LKNext ==
  \/ \E g \in Goroutines : \E call \in Calls(g) : Call(g, call)
  \/ \E g \in Goroutines : Lock_(g)
  \/ \E g \in Goroutines : Lock_announce(g)
  \/ \E g \in Goroutines : Lock_return(g)
  \/ \E g \in Goroutines : Unlock_(g)
  \/ \E g \in Goroutines : RLock_(g)
  \/ \E g \in Goroutines : RUnlock_(g)

InitLK == InitSD

\* A goroutine that can take a step of its call takes it.  The writers get a
\* mutex in the order in which they came: sync.Mutex hands the mutex to the
\* waiter at the front once it has waited for more than a millisecond.
LKFairness ==
  \A g \in Goroutines :
    WF_vars(Lock_(g) \/ Lock_announce(g) \/ Lock_return(g) \/ Unlock_(g)
              \/ RLock_(g) \/ RUnlock_(g))

SpecLK == InitLK /\ [][LKNext]_vars /\ LKFairness

\* the goroutine is at a Lock or RLock of the mutex
Wants(g, l) ==
  NextOp(g).lock = l /\ NextOp(g).op \in {"Lock", "RLock"}

\* the goroutine holds the mutex, as the writer or as a reader
Holds(g, l) ==
  \/ g \in locks[l].readers
  \/ locks[l].writer = g

\* the goroutine has requested a mutex and not acquired it yet
Requesting(g) == \E l \in Locks : Wants(g, l)

\* C40: no interleaving of request handling, event processing and admin
\* snapshot reads reaches a deadlock over the route-table, statistics,
\* load-balancer-manager, load-balancer, breaker-manager and breaker locks:
\* every goroutine that requests one of them eventually acquires it.  (A call
\* requests the mutexes it nests one right after the other, so a goroutine
\* that is no longer at a Lock or RLock has acquired each of them.)
C40_EveryLockAcquired ==
  \A g \in Goroutines : Requesting(g) ~> ~Requesting(g)

\* the event consumer holds the route table's mutex in addRoute and waits for
\* the load balancer's mutex, which the admin reader holds, while a request
\* is blocked in findMatchingRoute
C40_Witness ==
  /\ Holds("consumer", "drm.routesMutex")
  /\ Wants("consumer", "lb.mutex")
  /\ "admin" \in locks["lb.mutex"].readers
  /\ "request" \in locks["drm.routesMutex"].waiting

====
